---- MODULE Spec2Model ----
(***************************************************************************)
(* Model of the media-download processor (src/src/processor/index.mjs,     *)
(* first revision in the file, lines 1-778): the SQS-triggered handler,    *)
(* downloadMedia with its child process, the stdout/stderr progress        *)
(* scanners, the 14-minute timer, uploadToS3 and the job record kept in    *)
(* the active-downloads table.                                             *)
(*                                                                         *)
(* Every await of the handler is one action.  The callbacks registered by  *)
(* downloadMedia ('data' on both streams, the timer, 'close', 'error') are *)
(* actions of their own that interleave with the handler, as they do on    *)
(* the Node.js event loop.  A 'data' callback is an async function: each   *)
(* chunk starts a new instance, which is suspended at                      *)
(* `await Promise.allSettled(updates)` and resumed later.                  *)
(***************************************************************************)
EXTENDS Integers, Sequences, FiniteSets, TLC

\* ---------------------------------------------------------------- bounds
MaxLines == 1         \* lines the child writes in one download, whole-handler specification
ScanLines == 2        \* lines the child writes in one download, download specification
OrderLines == 3       \* lines the child writes in one download, ordering specification
MaxTicks == 1         \* clock ticks of TickMs before the clock is stopped
MaxFiles == 2         \* entries in the working directory when the child closes
MaxUploads == 3       \* uploadToS3 runs in the upload scenario
MaxJobs == 2          \* successful jobs of one requester in the usage scenario
MaxParas == 3         \* paragraphs of a report text
MaxDuration == 75     \* seconds of the analysed video
MaxPolls == 3         \* GetTranscriptionJob requests of one transcription
MaxRequests == 3      \* updates the webhook handles
TickMs == 2000        \* milliseconds per clock tick
StartTime == 1000000  \* Date.now() when the handler starts (any value >= UPDATE_INTERVAL)
ThrottleLines == 100  \* lines of the throttle scenario
LineSpacing == 100    \* milliseconds between two lines of the throttle scenario

\* ------------------------------------------------------ program constants
UPDATE_INTERVAL == 2000
TIMEOUT_MS == 840000
TELEGRAM_LIMIT_BYTES == 52428800

\* ------------------------------------------------------------ value sets
Streams == {"stdout", "stderr"}

\* What one output line of the child can be, by the two formats the scanners
\* look for: json is the JSON_PROGRESS payload ("none" when the line has no
\* JSON_PROGRESS tag, "bad" when it does not parse), bracket says whether the
\* line matches the [download] NN% regular expression.
Line(j, b) == [json |-> j, bracket |-> b]

\* The lines fed to the scanners: in the download specification a structured
\* percent line, a phase line, a bracketed line and a line that is no progress
\* line; in the whole-handler specification the two structured ones.
ScanFeed == {Line("percent", FALSE), Line("postprocess", FALSE),
             Line("none", TRUE), Line("none", FALSE)}
MainFeed == {Line("percent", FALSE), Line("postprocess", FALSE)}

\* Lines that match the structured and the bracketed format at once.
FormatFeed == {Line("percent", TRUE), Line("postprocess", TRUE)}

\* Every kind of line.
LineKinds == {Line(j, b) : j \in {"none", "bad", "percent", "postprocess"},
                           b \in BOOLEAN}

ChunksUpTo(feed, n) == UNION {[1..k -> feed] : k \in 1..n}

SourceTypes == {"youtube-long", "instagram-reel"}

\* Directory entries: a base name and an extension.
NoFile == [base |-> "", ext |-> ""]
DirEntries == {[base |-> "a", ext |-> "mp4"], [base |-> "b", ext |-> "mp4"],
               [base |-> "a", ext |-> "part"], [base |-> "a", ext |-> "ytdl"]}

Injective(s) == \A i, j \in DOMAIN s : i # j => s[i] # s[j]
Listings == {s \in UNION {[1..n -> DirEntries] : n \in 0..MaxFiles} : Injective(s)}

\* The directory contents of the download specification: empty, or the one
\* downloaded file.
ScanListings == {<<>>, <<[base |-> "a", ext |-> "mp4"]>>}

\* `files` before readdirSync has returned.
NotRead == <<NoFile>>

Absent == [exists |-> FALSE, status |-> "", percent |-> ""]
Queued == [exists |-> TRUE, status |-> "queued", percent |-> "0%"]
Pending == [state |-> "pending", path |-> NoFile, error |-> ""]
NoNotif == [stream |-> "", kind |-> "", db |-> FALSE, edit |-> FALSE]

\* The requester's item in the users table.  hasMap says whether the item has
\* the platform_usage attribute.  ensureUserExists (webhook lines 65-85)
\* creates the admin's item with zero counters and an empty platform_usage
\* map; /add (webhook lines 95-111) sets is_allowed, role and created_at only.
NoUser == [exists |-> FALSE, allowed |-> FALSE, hasMap |-> FALSE,
           conversations |-> 0, total |-> 0, platform |-> 0]
AdminRecord == [exists |-> TRUE, allowed |-> TRUE, hasMap |-> TRUE,
                conversations |-> 0, total |-> 0, platform |-> 0]

\* Two jobs that reach trackFile side by side, and the files they stored.
Writers == {"j1", "j2"}
NoKey == [sourceType |-> "", file |-> NoFile]
IdleWriters == [w \in Writers |-> [key |-> NoKey, pc |-> "idle", result |-> ""]]

\* No analysis is being delivered; extractFrames is not running.
NoReport == [pc |-> "idle"]
NoFrames == [pc |-> "idle"]
NoAnalysis == [pc |-> "idle"]
NoGate == [pc |-> "idle"]

VARIABLES
    job,            \* the SQS message body: sourceType, progressMessageId present or not,
                    \* and whether its username is the admin's
    pc,             \* position of the handler
    now,            \* Date.now()
    record,         \* the job's item in the active-downloads table
    progressMsg,    \* what the chat's progress message shows
    tempDir,        \* "none" | "exists" | "removed"
    listing,        \* `files` of the 'close' callback (readdirSync(tempDir))
    proc,           \* "none" | "running" | "killed" | "errored" | "closed"
    timerArmed,     \* the 14-minute timer is pending
    spawnTime,      \* Date.now() at spawn
    promise,        \* the promise downloadMedia returns
    filePath,       \* handler's filePath (NoFile = null)
    error,          \* the error caught by the handler ("" = none)
    lastUpdateTime, \* closure variable of downloadMedia
    handlers,       \* suspended 'data' callback instances
    emitted,        \* lines emitted so far, per stream
    budget,         \* lines the child can still write
    lastNotif,      \* the latest progress notification issued
    notified,       \* per stream, emission index of its latest notifying line
    stats,          \* counts: phase lines passed without a notification, notifications
    deletes,        \* DeleteItem requests issued for the job record
    fileSize,       \* stats.size
    uploadSuccess,  \* result of uploadToTelegram
    s3,             \* keys present in the bucket
    uploadLog,      \* one entry per uploadToS3 run
    filesTable,     \* items of the files table: key and the job that wrote it
    usage,          \* the requester's item in the users table
    userMsgs,       \* what was sent to the requester, in order
    writers,        \* the jobs that call trackFile side by side: key and position of each
    report,         \* the analysis being delivered: title, text, chunks, position
    frames,         \* extractFrames: duration, files of outputDir, result, position
    delivery,       \* what uploadToTelegram did: "none" | "skipped" | "sent" | "refused" | "threw"
    usageLog,       \* one entry per updateUsage call: size added and outcome
    analysis,       \* analyzeVideo: the two tracks, synthesis, the frames directory
    gate,           \* the webhook: allowlist, what was queued, what the processor did with it
    failNotes       \* the failure notices issued for the job: text and channel

jobVars == <<job, pc, filePath, error, fileSize, uploadSuccess, deletes>>
procVars == <<tempDir, listing, proc, timerArmed, spawnTime, promise>>
scanVars == <<lastUpdateTime, handlers, emitted, budget, lastNotif, notified, stats>>
storeVars == <<s3, uploadLog, filesTable, usage>>
moreVars == <<analysis, gate, failNotes>>
auxVars == <<writers, report, frames, delivery, usageLog, moreVars>>
vars == <<job, pc, now, record, progressMsg, tempDir, listing, proc, timerArmed,
          spawnTime, promise, filePath, error, lastUpdateTime, handlers, emitted,
          budget, lastNotif, notified, stats, deletes, fileSize, uploadSuccess, s3,
          uploadLog, filesTable, usage, userMsgs, writers, report, frames,
          delivery, usageLog, analysis, gate, failNotes>>

\* ------------------------------------------------- stores and chat calls

\* updateActiveDownload (index.mjs 199-221): an UpdateItem, which creates the
\* item when it is missing.  The status written is always 'downloading'; the
\* second argument goes to the percent attribute.  A failed call is logged
\* and changes nothing.
updateActiveDownload(rec, percent, ok) ==
    IF ok THEN [exists |-> TRUE, status |-> "downloading", percent |-> percent]
          ELSE rec

\* deleteActiveDownload (index.mjs 223-235): best effort.
deleteActiveDownload(rec, ok) == IF ok THEN Absent ELSE rec

\* editTelegramMessage (index.mjs 88-119): never throws; a message that was
\* deleted cannot be edited.
editTelegramMessage(msg, text, ok) ==
    IF ok /\ msg # "deleted" THEN text ELSE msg

\* ------------------------------------------------------ progress scanners

\* stdout callback, lines 282-321: the percent found on a line, "" when none.
\* The structured format is tried first, the bracketed one only when it gave
\* no percent.
StdoutPercent(line) ==
    LET structured == IF line.json = "percent" THEN "P_JSON" ELSE ""
    IN  IF structured = "" /\ line.bracket THEN "P_BRACKET" ELSE structured

\* stdout callback, line 291.
StdoutIsPhase(line) == line.json = "postprocess"

StdoutShouldNotifyStrict(t, last) == t - last > UPDATE_INTERVAL

\* stdout callback, line 326.
StdoutShouldNotify(t, last) == t - last >= UPDATE_INTERVAL

StderrPercentBracketFirst(line) ==
    IF line.bracket THEN "P_BRACKET"
    ELSE IF line.json = "percent" THEN "P_JSON" ELSE ""

\* stderr callback, lines 358-397.
StderrPercent(line) ==
    LET structured == IF line.json = "percent" THEN "P_JSON" ELSE ""
    IN  IF structured = "" /\ line.bracket THEN "P_BRACKET" ELSE structured

\* stderr callback, line 368.
StderrIsPhase(line) == line.json = "postprocess"

\* stderr callback, line 401.
StderrShouldNotify(t, last) == t - last >= UPDATE_INTERVAL

PercentOf(s, line) == IF s = "stdout" THEN StdoutPercent(line) ELSE StderrPercent(line)
IsPhase(s, line) == IF s = "stdout" THEN StdoutIsPhase(line) ELSE StderrIsPhase(line)
ShouldNotify(s, t, last) ==
    IF s = "stdout" THEN StdoutShouldNotify(t, last) ELSE StderrShouldNotify(t, last)

NotifiesThrottled(s, line, t, last) ==
    /\ IsPhase(s, line) \/ PercentOf(s, line) # ""
    /\ ShouldNotify(s, t, last)

\* A line makes the callback issue notifications when it is a phase line
\* (lines 291-304, no throttle test), or when it carries a percent and the
\* throttle lets it through (lines 323-326).
Notifies(s, line, t, last) ==
    \/ IsPhase(s, line)
    \/ PercentOf(s, line) # "" /\ ShouldNotify(s, t, last)

NotifyCallsSequential(hasMsg, dbOk) == [db |-> TRUE, edit |-> hasMsg /\ dbOk]

\* The calls one notification puts into `updates` (lines 298-303, 336-342):
\* the job-record write always, the edit when the job has a progress message.
\* Promise.allSettled awaits both whatever their outcome.
NotifyCalls(hasMsg, dbOk) == [db |-> TRUE, edit |-> hasMsg]

MinOf(S) == CHOOSE x \in S : \A y \in S : x <= y

\* What is left of the callback's loop after the notification of lines[i] has
\* been awaited: for a phase line the fallback test of the same line (lines
\* 315-346), then the following lines.
RestAfter(s, lines, i) ==
    LET tail == SubSeq(lines, i + 1, Len(lines))
    IN  IF IsPhase(s, lines[i]) /\ lines[i].bracket
        THEN <<Line("none", TRUE)>> \o tail
        ELSE tail

\* One run of a 'data' callback from its current position up to its next
\* await: the lines that do not notify are passed without effect; the first
\* that does sets lastUpdateTime and issues the calls of NotifyCalls, and the
\* instance is suspended on Promise.allSettled.  old is the instance being
\* resumed ({} for a new one), first the emission index of lines[1].
RunCallback(s, first, lines, old) ==
    LET hits == {i \in DOMAIN lines : Notifies(s, lines[i], now, lastUpdateTime)}
        passed == IF hits = {} THEN Len(lines) ELSE MinOf(hits) - 1
        phases == Cardinality({i \in 1..passed : lines[i].json = "postprocess"})
    IN  IF hits = {}
        THEN /\ handlers' = handlers \ old
             /\ stats' = [stats EXCEPT !.passedPhase = @ + phases]
             /\ UNCHANGED <<lastUpdateTime, lastNotif, notified, record, progressMsg>>
        ELSE LET i == MinOf(hits)
                 phase == IsPhase(s, lines[i])
                 kind == IF phase THEN "converting" ELSE PercentOf(s, lines[i])
                 rest == RestAfter(s, lines, i)
                 samePos == phase /\ lines[i].bracket
             IN  \E dbOk \in BOOLEAN, editOk \in BOOLEAN :
                 LET c == NotifyCalls(job.hasMsg, dbOk)
                 IN
                 /\ c.edit \/ editOk
                 /\ lastUpdateTime' = now
                 /\ record' = IF c.db THEN updateActiveDownload(record, kind, dbOk) ELSE record
                 /\ progressMsg' = IF c.edit
                                   THEN editTelegramMessage(progressMsg,
                                            IF phase THEN "converting" ELSE "downloading", editOk)
                                   ELSE progressMsg
                 /\ lastNotif' = [stream |-> s, kind |-> kind, db |-> c.db, edit |-> c.edit]
                 /\ notified' = [notified EXCEPT ![s] = first + i - 1]
                 /\ stats' = [passedPhase |-> stats.passedPhase + phases,
                              count |-> stats.count + 1]
                 /\ handlers' = (handlers \ old) \cup
                        (IF rest = <<>> THEN {}
                         ELSE {[stream |-> s,
                                idx |-> IF samePos THEN first + i - 1 ELSE first + i,
                                rest |-> rest]})

\* proc.stdout.on('data', ...), lines 275-348, called with one chunk.
StdoutChunk(chunk) ==
    /\ proc \in {"running", "killed"}
    /\ Len(chunk) <= budget
    /\ RunCallback("stdout", emitted["stdout"] + 1, chunk, {})
    /\ emitted' = [emitted EXCEPT !["stdout"] = @ + Len(chunk)]
    /\ budget' = budget - Len(chunk)
    /\ UNCHANGED <<jobVars, procVars, storeVars, now, userMsgs>>
    /\ UNCHANGED auxVars

\* The child writes some lines of feed to stdout.
StdoutOnData(feed) == \E chunk \in ChunksUpTo(feed, budget) : StdoutChunk(chunk)

\* proc.stderr.on('data', ...), lines 350-419, called with one chunk.
StderrChunk(chunk) ==
    /\ proc \in {"running", "killed"}
    /\ Len(chunk) <= budget
    /\ RunCallback("stderr", emitted["stderr"] + 1, chunk, {})
    /\ emitted' = [emitted EXCEPT !["stderr"] = @ + Len(chunk)]
    /\ budget' = budget - Len(chunk)
    /\ UNCHANGED <<jobVars, procVars, storeVars, now, userMsgs>>
    /\ UNCHANGED auxVars

\* The child writes some lines of feed to stderr.
StderrOnData(feed) == \E chunk \in ChunksUpTo(feed, budget) : StderrChunk(chunk)

\* The child writes its output line by line: every chunk is one line of feed,
\* so that no callback has lines left when its notification has been awaited.
StdoutLine(feed) == \E line \in feed : StdoutChunk(<<line>>)
StderrLine(feed) == \E line \in feed : StderrChunk(<<line>>)

\* `await Promise.allSettled(updates)` of a suspended callback returns and its
\* loop goes on (lines 304, 344, 380, 415).
ResumeCallback ==
    /\ \E h \in handlers : RunCallback(h.stream, h.idx, h.rest, {h})
    /\ UNCHANGED <<jobVars, procVars, storeVars, now, emitted, budget, userMsgs>>
    /\ UNCHANGED auxVars

\* ------------------------------------------------------------ child process

Settle(p, outcome) == IF p.state = "pending" THEN outcome ELSE p
Resolved(f) == [state |-> "resolved", path |-> f, error |-> ""]
Rejected(e) == [state |-> "rejected", path |-> NoFile, error |-> e]

QualifiesPartOnly(f) == f.ext # "part"

\* line 443: files.find(f => !f.endsWith('.part') && !f.endsWith('.ytdl'))
Qualifies(f) == f.ext # "part" /\ f.ext # "ytdl"
FindDownloaded(files) ==
    LET q == {i \in DOMAIN files : Qualifies(files[i])}
    IN  IF q = {} THEN NoFile ELSE files[MinOf(q)]

\* The timer callback, lines 422-426.  The clock is at least at the deadline
\* when it runs.
OnTimeout ==
    /\ timerArmed
    /\ now' = IF now < spawnTime + TIMEOUT_MS THEN spawnTime + TIMEOUT_MS ELSE now
    /\ proc' = "killed"
    /\ tempDir' = "removed"
    /\ promise' = Settle(promise, Rejected("timeout"))
    /\ timerArmed' = FALSE
    /\ UNCHANGED <<jobVars, scanVars, storeVars, listing, spawnTime, record,
                   progressMsg, userMsgs>>
    /\ UNCHANGED auxVars

\* proc.on('close', ...), lines 428-458.  code 1 stands for every non-zero
\* code, null of a signalled child included.  readdirSync throws when the
\* directory is gone (lines 454-457).
OnClose(code, files) ==
    /\ proc \in {"running", "killed", "errored"}
    /\ proc' = "closed"
    /\ timerArmed' = FALSE
    /\ IF code # 0
       THEN /\ tempDir' = "removed"
            /\ promise' = Settle(promise, Rejected("exit"))
            /\ UNCHANGED listing
       ELSE IF tempDir # "exists"
       THEN /\ tempDir' = "removed"
            /\ promise' = Settle(promise, Rejected("readdir"))
            /\ UNCHANGED listing
       ELSE /\ listing' = files
            /\ IF FindDownloaded(files) = NoFile
               THEN /\ tempDir' = "removed"
                    /\ promise' = Settle(promise, Rejected("notfound"))
               ELSE /\ tempDir' = tempDir
                    /\ promise' = Settle(promise, Resolved(FindDownloaded(files)))
    /\ UNCHANGED <<jobVars, scanVars, storeVars, spawnTime, now, record,
                   progressMsg, userMsgs>>
    /\ UNCHANGED auxVars

\* The listing is read only on code 0 with the directory in place.
Close(listings) ==
    \/ OnClose(1, <<>>)
    \/ tempDir # "exists" /\ OnClose(0, <<>>)
    \/ tempDir = "exists" /\ \E files \in listings : OnClose(0, files)

\* proc.on('error', ...), lines 460-464.
OnError ==
    /\ proc = "running"
    /\ proc' = "errored"
    /\ timerArmed' = FALSE
    /\ tempDir' = "removed"
    /\ promise' = Settle(promise, Rejected("spawn"))
    /\ UNCHANGED <<jobVars, scanVars, storeVars, listing, spawnTime, now, record,
                   progressMsg, userMsgs>>
    /\ UNCHANGED auxVars

\* The clock advances by d.  The timer callback runs before the clock passes
\* its deadline.
Advance(d) ==
    /\ timerArmed => now + d <= spawnTime + TIMEOUT_MS
    /\ now' = now + d
    /\ UNCHANGED <<jobVars, procVars, scanVars, storeVars, record, progressMsg,
                   userMsgs>>
    /\ UNCHANGED auxVars

\* Time passes while somebody reads the clock (the child can still write, or a
\* callback is suspended).
Tick ==
    /\ proc \in {"running", "killed"} \/ handlers # {}
    /\ now < StartTime + MaxTicks * TickMs
    /\ Advance(TickMs)

\* ------------------------------------------------------------------ handler

Sizes == {TELEGRAM_LIMIT_BYTES, TELEGRAM_LIMIT_BYTES + 1}

\* line 471 / 686: downloads/{sourceType}/{filename}
S3Key(sourceType, file) == [sourceType |-> sourceType, file |-> file]

cleanupFileSkipped(dir) == dir

\* cleanupFile (lines 514-525): removes the directory of filePath if it exists.
cleanupFile(dir) == IF dir = "exists" THEN "removed" ELSE dir

\* sizeMB.toFixed(2), in hundredths of a MB.
SizeHundredths(bytes) ==
    (bytes \div 1048576) * 100 + ((bytes % 1048576) * 100 + 524288) \div 1048576

\* handler lines 670-672: getCookiesForSource never throws for a known source.
GetCookies ==
    /\ pc = "start"
    /\ pc' = "dl_begin"
    /\ UNCHANGED <<job, filePath, error, fileSize, uploadSuccess, deletes, procVars,
                   scanVars, storeVars, now, record, progressMsg, userMsgs>>
    /\ UNCHANGED auxVars

\* downloadMedia lines 238-259: mkdirSync, then the 'Starting download' edit.
DownloadBegin ==
    /\ pc = "dl_begin"
    /\ tempDir' = "exists"
    /\ \E ok \in BOOLEAN :
         progressMsg' = IF job.hasMsg THEN editTelegramMessage(progressMsg, "starting", ok)
                        ELSE progressMsg
    /\ pc' = "dl_starting"
    /\ UNCHANGED <<job, filePath, error, fileSize, uploadSuccess, deletes, listing, proc,
                   timerArmed, spawnTime, promise, scanVars, storeVars, now, record,
                   userMsgs>>
    /\ UNCHANGED auxVars

\* downloadMedia lines 260-271 and 421-426: the 'starting' write, then spawn,
\* the callbacks and the timer.
DownloadSpawn ==
    /\ pc = "dl_starting"
    /\ \E ok \in BOOLEAN : record' = updateActiveDownload(record, "starting", ok)
    /\ proc' = "running"
    /\ timerArmed' = TRUE
    /\ spawnTime' = now
    /\ lastUpdateTime' = 0
    /\ promise' = Pending
    /\ pc' = "dl_wait"
    /\ UNCHANGED <<job, filePath, error, fileSize, uploadSuccess, deletes, tempDir, listing,
                   handlers, emitted, budget, lastNotif, notified, stats, storeVars, now, progressMsg,
                   userMsgs>>
    /\ UNCHANGED auxVars

\* handler line 675: `filePath = await downloadMedia(...)` returns or throws;
\* the locals of the 'close' callback are gone by then.
AwaitDownload ==
    /\ pc = "dl_wait"
    /\ promise.state # "pending"
    /\ IF promise.state = "resolved"
       THEN /\ filePath' = promise.path
            /\ pc' = "stat"
            /\ UNCHANGED error
       ELSE /\ error' = promise.error
            /\ pc' = "catch"
            /\ UNCHANGED filePath
    /\ listing' = NotRead
    /\ UNCHANGED <<job, fileSize, uploadSuccess, deletes, tempDir, proc, timerArmed,
                   spawnTime, promise, scanVars, storeVars, now, record, progressMsg,
                   userMsgs>>
    /\ UNCHANGED auxVars

\* handler lines 676-677: stat(filePath).
StatFile ==
    /\ pc = "stat"
    /\ \/ \E sz \in Sizes : fileSize' = sz /\ pc' = "s3_head" /\ UNCHANGED error
       \/ error' = "stat" /\ pc' = "catch" /\ UNCHANGED fileSize
    /\ UNCHANGED <<job, filePath, uploadSuccess, deletes, procVars, scanVars, storeVars,
                   now, record, progressMsg, userMsgs>>
    /\ UNCHANGED auxVars

\* What HeadObject can answer for a key: the truth, or some other error.
HeadResults(key) == {IF key \in s3 THEN "found" ELSE "notfound", "error"}

AfterHeadNoDedup(res) == "s3_put"

\* uploadToS3 lines 473-488: found -> the signed URL of the key is returned
\* without a put; NotFound or any other error -> go on to the put.
AfterHead(res) == IF res = "found" THEN "track" ELSE "s3_put"

UploadHead ==
    /\ pc = "s3_head"
    /\ Len(uploadLog) < MaxUploads
    /\ LET key == S3Key(job.sourceType, filePath)
       IN  \E res \in HeadResults(key) :
             /\ pc' = AfterHead(res)
             /\ uploadLog' = Append(uploadLog,
                    [key |-> key, head |-> res, put |-> "none",
                     url |-> IF AfterHead(res) = "track" THEN key ELSE S3Key("", NoFile)])
    /\ UNCHANGED <<job, filePath, error, fileSize, uploadSuccess, deletes, procVars,
                   scanVars, s3, filesTable, usage, now, record, progressMsg,
                   userMsgs>>
    /\ UNCHANGED auxVars

\* uploadToS3 lines 490-511: PutObject, then the signed URL.  A failed put
\* throws out of uploadToS3.
UploadPut ==
    /\ pc = "s3_put"
    /\ LET key == S3Key(job.sourceType, filePath)
           n == Len(uploadLog)
       IN  \/ /\ s3' = s3 \cup {key}
              /\ uploadLog' = [uploadLog EXCEPT ![n].put = "ok", ![n].url = key]
              /\ pc' = "track"
              /\ UNCHANGED error
           \/ /\ uploadLog' = [uploadLog EXCEPT ![n].put = "failed"]
              /\ error' = "s3put"
              /\ pc' = "catch"
              /\ UNCHANGED s3
    /\ UNCHANGED <<job, filePath, fileSize, uploadSuccess, deletes, procVars, scanVars,
                   filesTable, usage, now, record, progressMsg, userMsgs>>
    /\ UNCHANGED auxVars

\* PutItem with ConditionExpression attribute_not_exists(file_key) (lines
\* 559-572), as the table serves it: the item is created when no item has the
\* key, otherwise the request fails with ConditionalCheckFailedException; the
\* request can also fail for another reason.
PutOutcomes(table, key) ==
    {IF \E it \in table : it.key = key THEN "ConditionalCheckFailedException" ELSE "created",
     "ServiceError"}

trackFileOverwrite(table, key, writer, outcome) ==
    IF outcome = "ServiceError" THEN table
    ELSE {it \in table : it.key # key} \cup {[key |-> key, writer |-> writer]}

\* trackFile (lines 552-579): the table after the call.
trackFile(table, key, writer, outcome) ==
    IF outcome = "created" THEN table \cup {[key |-> key, writer |-> writer]} ELSE table

\* trackFile, lines 573-577: the catch block logs every error but the failed
\* condition and rethrows none, so the call returns whatever the outcome.
trackFileReturns(outcome) == "returned"

\* handler line 690: await trackFile(...).
TrackFile ==
    /\ pc = "track"
    /\ LET key == S3Key(job.sourceType, filePath)
       IN  \E outcome \in PutOutcomes(filesTable, key) :
             filesTable' = trackFile(filesTable, key, "job", outcome)
    /\ pc' = "usage"
    /\ UNCHANGED <<job, filePath, error, fileSize, uploadSuccess, deletes, procVars,
                   scanVars, s3, uploadLog, usage, now, record, progressMsg,
                   userMsgs>>
    /\ UNCHANGED auxVars

\* How the users table serves the UpdateItem of updateUsage (lines 531-545).
\* The SET clause writes platform_usage.#p, a path into the platform_usage
\* map: when the item has no such attribute (the item is absent, or was
\* created by /add) the table rejects the whole request with a
\* ValidationException.  The request can also fail for another reason.
UsageOutcomes(rec) ==
    {IF rec.hasMap THEN "updated" ELSE "ValidationException", "ServiceError"}

\* updateUsage (lines 527-550): the item after the call; every error is caught
\* and logged.
updateUsage(rec, size, outcome) ==
    IF outcome = "updated"
    THEN [rec EXCEPT !.exists = TRUE,
                     !.conversations = @ + 1,
                     !.total = @ + size,
                     !.platform = @ + size]
    ELSE rec

\* handler line 693: await updateUsage(username, sourceType, fileSizeMB).
UpdateUsage ==
    /\ pc = "usage"
    /\ \E outcome \in UsageOutcomes(usage) :
         /\ usage' = updateUsage(usage, SizeHundredths(fileSize), outcome)
         /\ usageLog' = Append(usageLog, [size |-> SizeHundredths(fileSize),
                                          outcome |-> outcome])
    /\ pc' = "tg_upload"
    /\ UNCHANGED <<job, filePath, error, fileSize, uploadSuccess, deletes, procVars,
                   scanVars, s3, uploadLog, filesTable, now, record, progressMsg,
                   userMsgs, writers, report, frames, delivery, moreVars>>

\* uploadToTelegram line 124: fileSizeInBytes / (1024 * 1024), as the pair of
\* its whole megabytes and the bytes beyond them (the division is exact in
\* floating point for every size a file can have).
FileSizeInMB(bytes) == [mb |-> bytes \div 1048576, rest |-> bytes % 1048576]

TooLargeAtLimit(bytes) ==
    LET size == FileSizeInMB(bytes) IN size.mb >= 50

\* uploadToTelegram line 126: fileSizeInMB > 50, the literal of the code.
TooLarge(bytes) ==
    LET size == FileSizeInMB(bytes) IN size.mb > 50 \/ (size.mb = 50 /\ size.rest > 0)

\* uploadToTelegram (lines 121-160): skipped when the file is too large;
\* otherwise the media is sent, or refused by the API, or fetch throws.
UploadToTelegram ==
    /\ pc = "tg_upload"
    /\ IF TooLarge(fileSize)
       THEN /\ uploadSuccess' = FALSE /\ pc' = "tg_result" /\ delivery' = "skipped"
            /\ UNCHANGED <<error, userMsgs>>
       ELSE \/ /\ uploadSuccess' = TRUE /\ pc' = "tg_result" /\ delivery' = "sent"
               /\ userMsgs' = Append(userMsgs, "media") /\ UNCHANGED error
            \/ /\ uploadSuccess' = FALSE /\ pc' = "tg_result" /\ delivery' = "refused"
               /\ UNCHANGED <<error, userMsgs>>
            \/ /\ error' = "tgupload" /\ pc' = "catch" /\ delivery' = "threw"
               /\ UNCHANGED <<uploadSuccess, userMsgs>>
    /\ UNCHANGED <<job, filePath, fileSize, deletes, procVars, scanVars, storeVars, now,
                   record, progressMsg, writers, report, frames, usageLog, moreVars>>

\* sendTelegramMessage (lines 59-86) has no try/catch: the message is sent, or
\* the API refuses it (logged), or fetch / response.json() throws.
SendOutcomes == {"sent", "refused", "throw"}

\* handler lines 722-737: the progress message is deleted (fetch in try/catch).
DeleteProgressMessage ==
    /\ pc = "tg_result"
    /\ uploadSuccess /\ job.hasMsg
    /\ \E ok \in BOOLEAN : progressMsg' = IF ok THEN "deleted" ELSE progressMsg
    /\ pc' = "tg_button"
    /\ UNCHANGED <<job, filePath, error, fileSize, uploadSuccess, deletes, procVars,
                   scanVars, storeVars, now, record, userMsgs>>
    /\ UNCHANGED auxVars

\* handler line 741: the analysis button is sent as a message of its own.
SendButton ==
    /\ pc = "tg_button"
    /\ \E out \in SendOutcomes :
         /\ userMsgs' = IF out = "sent" THEN Append(userMsgs, "button") ELSE userMsgs
         /\ pc' = IF out = "throw" THEN "catch" ELSE "delete_record"
         /\ error' = IF out = "throw" THEN "tgsend" ELSE error
    /\ UNCHANGED <<job, filePath, fileSize, uploadSuccess, deletes, procVars, scanVars,
                   storeVars, now, record, progressMsg>>
    /\ UNCHANGED auxVars

\* handler lines 743-745: the progress message is edited into the result.
EditComplete ==
    /\ pc = "tg_result"
    /\ ~uploadSuccess /\ job.hasMsg
    /\ \E ok \in BOOLEAN : progressMsg' = editTelegramMessage(progressMsg, "complete", ok)
    /\ pc' = "delete_record"
    /\ UNCHANGED <<job, filePath, error, fileSize, uploadSuccess, deletes, procVars,
                   scanVars, storeVars, now, record, userMsgs>>
    /\ UNCHANGED auxVars

\* handler lines 746-749: no progress message, the result is a new message.
SendComplete ==
    /\ pc = "tg_result"
    /\ ~job.hasMsg
    /\ \E out \in SendOutcomes :
         /\ userMsgs' = IF out = "sent" THEN Append(userMsgs, "complete") ELSE userMsgs
         /\ pc' = IF out = "throw" THEN "catch" ELSE "delete_record"
         /\ error' = IF out = "throw" THEN "tgsend" ELSE error
    /\ UNCHANGED <<job, filePath, fileSize, uploadSuccess, deletes, procVars, scanVars,
                   storeVars, now, record, progressMsg>>
    /\ UNCHANGED auxVars

\* handler lines 751-752: the job record is deleted on success.
DeleteOnSuccess ==
    /\ pc = "delete_record"
    /\ \E ok \in BOOLEAN : record' = deleteActiveDownload(record, ok)
    /\ deletes' = deletes + 1
    /\ pc' = "finally"
    /\ UNCHANGED <<job, filePath, error, fileSize, uploadSuccess, procVars, scanVars,
                   storeVars, now, progressMsg, userMsgs>>
    /\ UNCHANGED auxVars

DeleteOnFailureSkipped ==
    /\ pc = "catch"
    /\ pc' = "catch_notify"
    /\ UNCHANGED <<job, filePath, error, fileSize, uploadSuccess, deletes, procVars,
                   scanVars, storeVars, now, record, progressMsg, userMsgs>>
    /\ UNCHANGED auxVars

\* handler lines 753-757: catch, the job record is deleted on failure.
DeleteOnFailure ==
    /\ pc = "catch"
    /\ \E ok \in BOOLEAN : record' = deleteActiveDownload(record, ok)
    /\ deletes' = deletes + 1
    /\ pc' = "catch_notify"
    /\ UNCHANGED <<job, filePath, error, fileSize, uploadSuccess, procVars, scanVars,
                   storeVars, now, progressMsg, userMsgs>>
    /\ UNCHANGED auxVars

\* A notice that hides the cause.
errorMsgGeneric(e) == [preamble |-> "Download Failed", detail |-> "unknown"]

\* handler lines 760-762: the fixed preamble and `Error: ${error.message}`.
errorMsg(e) == [preamble |-> "Download Failed", detail |-> e]

\* handler lines 759-768: the 'Download Failed' text is put into the progress
\* message, or sent as a new message when there is none; a throwing send
\* leaves the catch block after the finally block has run.
NotifyFailure ==
    /\ pc = "catch_notify"
    /\ IF job.hasMsg
       THEN /\ \E ok \in BOOLEAN :
                 progressMsg' = editTelegramMessage(progressMsg, "failed", ok)
            /\ pc' = "finally"
            /\ UNCHANGED userMsgs
       ELSE /\ \E out \in SendOutcomes :
                 /\ userMsgs' = IF out = "sent" THEN Append(userMsgs, "failed") ELSE userMsgs
                 /\ pc' = IF out = "throw" THEN "finally_throw" ELSE "finally"
            /\ UNCHANGED progressMsg
    /\ failNotes' = Append(failNotes, [text |-> errorMsg(error),
                                       via |-> IF job.hasMsg THEN "edit" ELSE "send"])
    /\ UNCHANGED <<job, filePath, error, fileSize, uploadSuccess, deletes, procVars,
                   scanVars, storeVars, now, record>>
    /\ UNCHANGED <<writers, report, frames, delivery, usageLog, analysis, gate>>

\* handler lines 769-777: finally, then the handler returns { statusCode: 200 }
\* or the exception of the catch block leaves it.
Finally ==
    /\ pc \in {"finally", "finally_throw"}
    /\ tempDir' = IF filePath # NoFile THEN cleanupFile(tempDir) ELSE tempDir
    /\ pc' = IF pc = "finally" THEN "returned" ELSE "thrown"
    /\ UNCHANGED <<job, filePath, error, fileSize, uploadSuccess, deletes, listing, proc,
                   timerArmed, spawnTime, promise, scanVars, storeVars, now, record,
                   progressMsg, userMsgs>>
    /\ UNCHANGED auxVars

\* ------------------------------------------------------------ specification

InitWith(lines) ==
    /\ job \in [sourceType : {"youtube-long"}, hasMsg : BOOLEAN, admin : {TRUE}]
    /\ pc = "start"
    /\ now = StartTime
    /\ record = Queued
    /\ progressMsg = IF job.hasMsg THEN "processing" ELSE "none"
    /\ tempDir = "none"
    /\ listing = NotRead
    /\ proc = "none"
    /\ timerArmed = FALSE
    /\ spawnTime = 0
    /\ promise = Pending
    /\ filePath = NoFile
    /\ error = ""
    /\ lastUpdateTime = 0
    /\ handlers = {}
    /\ emitted = [s \in Streams |-> 0]
    /\ budget = lines
    /\ lastNotif = NoNotif
    /\ notified = [s \in Streams |-> 0]
    /\ stats = [passedPhase |-> 0, count |-> 0]
    /\ deletes = 0
    /\ fileSize = 0
    /\ uploadSuccess = FALSE
    /\ s3 = {S3Key(job.sourceType, [base |-> "a", ext |-> "mp4"])}
    /\ uploadLog = <<>>
    /\ filesTable = {}
    /\ usage = AdminRecord
    /\ userMsgs = <<>>
    /\ writers = IdleWriters
    /\ report = NoReport
    /\ frames = NoFrames
    /\ delivery = "none"
    /\ usageLog = <<>>
    /\ analysis = NoAnalysis
    /\ gate = NoGate
    /\ failNotes = <<>>

\* The whole handler.  The child writes its output line by line here; chunks
\* of several lines and the resumption of a suspended callback are the matter
\* of the download and ordering specifications.
Init == InitWith(MaxLines)

Next ==
    \/ GetCookies
    \/ DownloadBegin
    \/ DownloadSpawn
    \/ StdoutLine(MainFeed)
    \/ StderrLine(MainFeed)
    \/ Tick
    \/ OnTimeout
    \/ Close(Listings)
    \/ OnError
    \/ AwaitDownload
    \/ StatFile
    \/ UploadHead
    \/ UploadPut
    \/ TrackFile
    \/ UpdateUsage
    \/ UploadToTelegram
    \/ DeleteProgressMessage
    \/ SendButton
    \/ EditComplete
    \/ SendComplete
    \/ DeleteOnSuccess
    \/ DeleteOnFailure
    \/ NotifyFailure
    \/ Finally

Spec == Init /\ [][Next]_vars

\* The download specification: the handler up to the return of downloadMedia
\* (line 675), with more output of the child and all four kinds of line.
DownloadInit == InitWith(ScanLines)

DownloadNext ==
    \/ GetCookies
    \/ DownloadBegin
    \/ DownloadSpawn
    \/ StdoutOnData(ScanFeed)
    \/ StderrOnData(ScanFeed)
    \/ ResumeCallback
    \/ Tick
    \/ OnTimeout
    \/ Close(ScanListings)
    \/ OnError
    \/ AwaitDownload

DownloadSpec == DownloadInit /\ [][DownloadNext]_vars

\* The scanners on their own, with enough lines for a chunk to arrive while
\* the callback of an earlier chunk of several lines is suspended.
OrderInit == InitWith(OrderLines)

OrderNext ==
    \/ GetCookies
    \/ DownloadBegin
    \/ DownloadSpawn
    \/ StdoutOnData(ScanFeed)
    \/ StderrOnData(ScanFeed)
    \/ ResumeCallback
    \/ Tick

OrderSpec == OrderInit /\ [][OrderNext]_vars

\* The scanners fed with lines that match both formats.
FormatInit == InitWith(ScanLines)

FormatNext ==
    \/ GetCookies
    \/ DownloadBegin
    \/ DownloadSpawn
    \/ StdoutOnData(FormatFeed)
    \/ StderrOnData(FormatFeed)
    \/ ResumeCallback
    \/ Tick

FormatSpec == FormatInit /\ [][FormatNext]_vars

\* The throttle scenario: the child writes ThrottleLines percent lines, one
\* every LineSpacing milliseconds from the moment it is spawned, interleaved
\* over both streams (every third line on the other stream than the first),
\* alternately in the structured and in the bracketed format.
ThrottleInit == InitWith(ThrottleLines)

Fed == ThrottleLines - budget

\* The stream of the next line: the first line's stream is free, and it is the
\* stream that has carried more lines ever since.
NextStreams ==
    LET major == IF emitted["stdout"] > emitted["stderr"] THEN "stdout" ELSE "stderr"
        minor == IF major = "stdout" THEN "stderr" ELSE "stdout"
    IN  IF Fed = 0 THEN Streams
        ELSE IF Fed % 3 = 2 THEN {minor} ELSE {major}

ThrottleLine ==
    /\ now = spawnTime + LineSpacing * Fed
    /\ LET line == IF Fed % 2 = 0 THEN Line("percent", FALSE) ELSE Line("none", TRUE)
       IN  \/ "stdout" \in NextStreams /\ StdoutChunk(<<line>>)
           \/ "stderr" \in NextStreams /\ StderrChunk(<<line>>)

ThrottleWait ==
    /\ proc = "running"
    /\ budget > 0
    /\ now < spawnTime + LineSpacing * Fed
    /\ Advance(LineSpacing)

ThrottleNext ==
    \/ GetCookies
    \/ DownloadBegin
    \/ DownloadSpawn
    \/ ThrottleLine
    \/ ThrottleWait

ThrottleSpec == ThrottleInit /\ [][ThrottleNext]_vars

\* uploadToS3 on its own: it is called with a downloaded file of some source
\* category against a bucket holding any set of keys, and called again, with
\* the same or another file, once it has returned or thrown.
UploadFiles == {[base |-> "a", ext |-> "mp4"], [base |-> "b", ext |-> "mp4"]}
UploadKeys == {S3Key(t, f) : t \in SourceTypes, f \in UploadFiles}

UploadInit ==
    /\ job \in [sourceType : SourceTypes, hasMsg : {TRUE}, admin : {TRUE}]
    /\ pc = "s3_head"
    /\ now = StartTime
    /\ record = updateActiveDownload(Queued, "starting", TRUE)
    /\ progressMsg = "starting"
    /\ tempDir = "exists"
    /\ listing = NotRead
    /\ proc = "closed"
    /\ timerArmed = FALSE
    /\ spawnTime = StartTime
    /\ filePath \in UploadFiles
    /\ promise = Resolved(filePath)
    /\ error = ""
    /\ lastUpdateTime = 0
    /\ handlers = {}
    /\ emitted = [s \in Streams |-> 0]
    /\ budget = 0
    /\ lastNotif = NoNotif
    /\ notified = [s \in Streams |-> 0]
    /\ stats = [passedPhase |-> 0, count |-> 0]
    /\ deletes = 0
    /\ fileSize = TELEGRAM_LIMIT_BYTES
    /\ uploadSuccess = FALSE
    /\ s3 \in SUBSET UploadKeys
    /\ uploadLog = <<>>
    /\ filesTable = {}
    /\ usage = AdminRecord
    /\ userMsgs = <<>>
    /\ writers = IdleWriters
    /\ report = NoReport
    /\ frames = NoFrames
    /\ delivery = "none"
    /\ usageLog = <<>>
    /\ analysis = NoAnalysis
    /\ gate = NoGate
    /\ failNotes = <<>>

UploadAgain ==
    /\ pc \in {"track", "catch"}
    /\ Len(uploadLog) < MaxUploads
    /\ pc' = "s3_head"
    /\ error' = ""
    /\ \E f \in UploadFiles : filePath' = f /\ promise' = Resolved(f)
    /\ UNCHANGED <<job, fileSize, uploadSuccess, deletes, tempDir, listing, proc,
                   timerArmed, spawnTime, scanVars, storeVars, now, record, progressMsg,
                   userMsgs>>
    /\ UNCHANGED auxVars

UploadNext ==
    \/ UploadHead
    \/ UploadPut
    \/ UploadAgain

UploadSpec == UploadInit /\ [][UploadNext]_vars

\* trackFile called by two jobs side by side: each job reaches the call with
\* the key of its file, the table serves the two PutItem requests in either
\* order, and each call returns to its handler.
TrackKeys == {S3Key(t, f) : t \in SourceTypes, f \in UploadFiles}

TrackInit == InitWith(0)

TrackCall(w) ==
    /\ writers[w].pc = "idle"
    /\ \E k \in TrackKeys : writers' = [writers EXCEPT ![w] = [key |-> k, pc |-> "put", result |-> ""]]
    /\ UNCHANGED <<jobVars, procVars, scanVars, storeVars, now, record, progressMsg,
                   userMsgs, report, frames, delivery, usageLog, moreVars>>

TrackPut(w) ==
    /\ writers[w].pc = "put"
    /\ \E outcome \in PutOutcomes(filesTable, writers[w].key) :
         /\ filesTable' = trackFile(filesTable, writers[w].key, w, outcome)
         /\ writers' = [writers EXCEPT ![w].pc = trackFileReturns(outcome),
                                       ![w].result = outcome]
    /\ UNCHANGED <<jobVars, procVars, scanVars, s3, uploadLog, usage, now, record,
                   progressMsg, userMsgs, report, frames, delivery, usageLog, moreVars>>

TrackNext == \E w \in Writers : TrackCall(w) \/ TrackPut(w)

TrackSpec == TrackInit /\ [][TrackNext]_vars

\* The usage record of one requester: the requester (the admin, or a user the
\* admin admits with /add and may remove again) submits download requests to
\* the webhook; every admitted request becomes a job that succeeds and reaches
\* updateUsage.
UsageInit ==
    /\ job \in [sourceType : {"youtube-long"}, hasMsg : {TRUE}, admin : BOOLEAN]
    /\ pc = "idle"
    /\ now = StartTime
    /\ record = Absent
    /\ progressMsg = "none"
    /\ tempDir = "none"
    /\ listing = NotRead
    /\ proc = "none"
    /\ timerArmed = FALSE
    /\ spawnTime = 0
    /\ promise = Pending
    /\ filePath = NoFile
    /\ error = ""
    /\ lastUpdateTime = 0
    /\ handlers = {}
    /\ emitted = [s \in Streams |-> 0]
    /\ budget = 0
    /\ lastNotif = NoNotif
    /\ notified = [s \in Streams |-> 0]
    /\ stats = [passedPhase |-> 0, count |-> 0]
    /\ deletes = 0
    /\ fileSize = 0
    /\ uploadSuccess = FALSE
    /\ s3 = {}
    /\ uploadLog = <<>>
    /\ filesTable = {}
    /\ usage = NoUser
    /\ userMsgs = <<>>
    /\ writers = IdleWriters
    /\ report = NoReport
    /\ frames = NoFrames
    /\ delivery = "none"
    /\ usageLog = <<>>
    /\ analysis = NoAnalysis
    /\ gate = NoGate
    /\ failNotes = <<>>

\* ensureUserExists (webhook lines 65-85): conditional create of the full
\* item, every error swallowed.
ensureUserExists(rec, served) == IF served /\ ~rec.exists THEN AdminRecord ELSE rec

\* A check that lets everybody in.
checkAuthOpen(isAdmin, rec) == TRUE

\* checkAuth (webhook lines 43-63): the admin is always allowed, after
\* ensureUserExists; anybody else is allowed when the item says so.
checkAuth(isAdmin, rec) == IF isAdmin THEN TRUE ELSE rec.exists /\ rec.allowed

\* webhook lines 436-547: a download request of the requester; it is queued
\* when checkAuth allows it.
Submit ==
    /\ pc = "idle"
    /\ Len(usageLog) < MaxJobs
    /\ \E served \in BOOLEAN :
         usage' = IF job.admin THEN ensureUserExists(usage, served) ELSE usage
    /\ pc' = IF checkAuth(job.admin, usage) THEN "queued" ELSE "idle"
    /\ UNCHANGED <<job, filePath, error, fileSize, uploadSuccess, deletes, procVars,
                   scanVars, s3, uploadLog, filesTable, now, record, progressMsg,
                   userMsgs, auxVars>>

\* /add of the admin for the requester (webhook lines 95-111): an upsert that
\* sets is_allowed, role and created_at.
AddUser ==
    /\ ~job.admin
    /\ \E served \in BOOLEAN :
         usage' = IF served THEN [usage EXCEPT !.exists = TRUE, !.allowed = TRUE] ELSE usage
    /\ UNCHANGED <<jobVars, procVars, scanVars, s3, uploadLog, filesTable, now, record,
                   progressMsg, userMsgs, auxVars>>

\* /remove of the admin for the requester (webhook lines 115-127).
RemoveUser ==
    /\ ~job.admin
    /\ \E served \in BOOLEAN :
         usage' = IF served THEN [usage EXCEPT !.exists = TRUE, !.allowed = FALSE] ELSE usage
    /\ UNCHANGED <<jobVars, procVars, scanVars, s3, uploadLog, filesTable, now, record,
                   progressMsg, userMsgs, auxVars>>

\* The queued job downloads and stores its file (handler lines 670-690).
RunJob ==
    /\ pc = "queued"
    /\ pc' = "usage"
    /\ \E sz \in Sizes : fileSize' = sz
    /\ UNCHANGED <<job, filePath, error, uploadSuccess, deletes, procVars, scanVars,
                   storeVars, now, record, progressMsg, userMsgs, auxVars>>

\* The job completes (handler lines 695-752).
JobDone ==
    /\ pc = "tg_upload"
    /\ pc' = "idle"
    /\ UNCHANGED <<job, filePath, error, fileSize, uploadSuccess, deletes, procVars,
                   scanVars, storeVars, now, record, progressMsg, userMsgs, auxVars>>

UsageNext ==
    \/ Submit
    \/ AddUser
    \/ RemoveUser
    \/ RunJob
    \/ UpdateUsage
    \/ JobDone

UsageSpec == UsageInit /\ [][UsageNext]_vars

\* ------------------------------------------------- delivery of an analysis

\* Nothing of the download job is in progress (the analysis request is a
\* separate invocation of the processor).
Parked ==
    /\ job = [sourceType |-> "youtube-long", hasMsg |-> TRUE, admin |-> TRUE]
    /\ pc = "idle"
    /\ now = StartTime
    /\ record = Absent
    /\ progressMsg = "none"
    /\ tempDir = "none"
    /\ listing = NotRead
    /\ proc = "none"
    /\ timerArmed = FALSE
    /\ spawnTime = 0
    /\ promise = Pending
    /\ filePath = NoFile
    /\ error = ""
    /\ lastUpdateTime = 0
    /\ handlers = {}
    /\ emitted = [s \in Streams |-> 0]
    /\ budget = 0
    /\ lastNotif = NoNotif
    /\ notified = [s \in Streams |-> 0]
    /\ stats = [passedPhase |-> 0, count |-> 0]
    /\ deletes = 0
    /\ fileSize = 0
    /\ uploadSuccess = FALSE
    /\ s3 = {}
    /\ uploadLog = <<>>
    /\ filesTable = {}
    /\ usage = AdminRecord
    /\ userMsgs = <<>>
    /\ writers = IdleWriters
    /\ delivery = "none"
    /\ usageLog = <<>>
    /\ failNotes = <<>>

\* A text is the sequence of its paragraphs, the pieces between "\n\n"
\* separators.  A paragraph is described by three lengths: the whitespace it
\* starts with, its core (first to last non-whitespace character; 0 for a
\* paragraph of whitespace only) and the whitespace it ends with.
TELEGRAM_MAX == 4096
CHUNK_MAX == 3900
ParaCores == {0, 1, 1949, 1950, 3900, 4080}
ParaShapes ==
    {[lead |-> 0, core |-> c, trail |-> 0] : c \in ParaCores}
        \cup {[lead |-> 1, core |-> 1, trail |-> 1]}
Texts == UNION {[1..n -> ParaShapes] : n \in 1..MaxParas}
TitleLens == {5, 200}

ParaLen(p) == p.lead + p.core + p.trail

RECURSIVE SumLen(_)
SumLen(ps) == IF ps = <<>> THEN 0 ELSE ParaLen(Head(ps)) + SumLen(Tail(ps))

\* Length of the paragraphs joined by "\n\n".
JoinedLen(ps) == IF ps = <<>> THEN 0 ELSE SumLen(ps) + 2 * (Len(ps) - 1)

\* Length of a currentChunk: every paragraph in it is followed by "\n\n".
RawLen(ps) == SumLen(ps) + 2 * Len(ps)

\* text.split('\n\n') (line 636): the paragraphs, here with their position.
SplitParas(text) ==
    [i \in 1..Len(text) |->
        [id |-> i, lead |-> text[i].lead, core |-> text[i].core, trail |-> text[i].trail]]

\* currentChunk.trim() (lines 641, 648): whitespace is removed from both ends
\* of the string, the "\n\n" separators and whitespace-only paragraphs at the
\* ends included.
Trim(ps) ==
    LET inked == {i \in 1..Len(ps) : ps[i].core > 0}
    IN  IF inked = {} THEN <<>>
        ELSE LET f == CHOOSE i \in inked : \A j \in inked : i <= j
                 l == CHOOSE i \in inked : \A j \in inked : j <= i
             IN  [i \in 1..(l - f + 1) |->
                    [ps[f + i - 1] EXCEPT
                        !.lead = IF i = 1 THEN 0 ELSE @,
                        !.trail = IF f + i - 1 = l THEN 0 ELSE @]]

\* `if (currentChunk) chunks.push(currentChunk.trim())`: a currentChunk is the
\* empty string exactly when no paragraph was put into it.
PushChunk(chunks, cur) == IF cur # <<>> THEN Append(chunks, Trim(cur)) ELSE chunks

RECURSIVE SplitFrom(_, _, _, _, _)
SplitFrom(paras, i, chunks, cur, maxLength) ==
    IF i > Len(paras) THEN PushChunk(chunks, cur)
    ELSE IF RawLen(cur) + ParaLen(paras[i]) > maxLength
         THEN SplitFrom(paras, i + 1, PushChunk(chunks, cur), <<paras[i]>>, maxLength)
         ELSE SplitFrom(paras, i + 1, chunks, Append(cur, paras[i]), maxLength)

\* A splitMessage that forgets the chunk under construction at the end.
splitMessageNoFlush(text, maxLength) ==
    LET all == SplitFrom(SplitParas(text), 1, <<>>, <<>>, maxLength)
    IN  SubSeq(all, 1, Len(all) - 1)

\* splitMessage (lines 633-651): the chunks, each a sequence of paragraphs.
splitMessage(text, maxLength) == SplitFrom(SplitParas(text), 1, <<>>, <<>>, maxLength)

ChunkLen(chunk) == JoinedLen(chunk)

\* Lengths of the strings sendAnalysisToTelegram builds (UTF-16 units).
HeaderLen(title) == 24 + title + 6
NoticeLen(title) == HeaderLen(title) + 55
Digits(n) == IF n < 10 THEN 1 ELSE 2
PartLen(i, n, chunk) == 8 + Digits(i) + 1 + Digits(n) + 6 + ChunkLen(chunk)

NoMessage == [kind |-> "none"]

ReportInit ==
    /\ Parked
    /\ frames = NoFrames
    /\ analysis = NoAnalysis
    /\ gate = NoGate
    /\ report \in [pc : {"start"}, title : TitleLens, text : Texts, chunks : {<<>>},
                   i : {0}, inflight : {NoMessage}, sends : {<<>>}]

ReportUnchanged ==
    UNCHANGED <<jobVars, procVars, scanVars, storeVars, now, record, progressMsg,
                userMsgs, writers, frames, delivery, usageLog, moreVars>>

\* `fullMessage.length <= 4096` (line 617).
FitsOneMessage(title, text) == HeaderLen(title) + JoinedLen(text) <= TELEGRAM_MAX

\* Lines 614-621: the first sendTelegramMessage call is made, with the whole
\* report or with the split notice.
AnalysisBegin ==
    /\ report.pc = "start"
    /\ report' =
         IF FitsOneMessage(report.title, report.text)
         THEN [report EXCEPT
                 !.pc = "single_wait",
                 !.inflight = [kind |-> "single", part |-> 0, of |-> 0,
                               len |-> HeaderLen(report.title) + JoinedLen(report.text)]]
         ELSE [report EXCEPT
                 !.pc = "notice_wait",
                 !.inflight = [kind |-> "notice", part |-> 0, of |-> 0,
                               len |-> NoticeLen(report.title)]]
    /\ ReportUnchanged

\* The awaited sendTelegramMessage settles (lines 59-85): it returns Telegram's
\* answer, or the request throws and sendAnalysisToTelegram is left.
SendSettles ==
    /\ report.inflight # NoMessage
    /\ \E outcome \in {"returned", "threw"} :
         report' =
           [report EXCEPT
              !.inflight = NoMessage,
              !.sends = Append(@, report.inflight),
              !.pc = IF outcome = "threw" THEN "threw"
                     ELSE IF report.pc = "single_wait" THEN "done"
                     ELSE IF report.pc = "notice_wait" THEN "parts"
                     ELSE "delay",
              !.chunks = IF outcome = "returned" /\ report.pc = "notice_wait"
                         THEN splitMessage(report.text, CHUNK_MAX) ELSE @]
    /\ ReportUnchanged

\* Lines 625-626: the loop sends the next chunk, or ends.
SendPart ==
    /\ report.pc = "parts"
    /\ report' =
         IF report.i < Len(report.chunks)
         THEN [report EXCEPT
                 !.pc = "part_wait",
                 !.inflight = [kind |-> "part", part |-> report.i + 1,
                               of |-> Len(report.chunks),
                               len |-> PartLen(report.i + 1, Len(report.chunks),
                                               report.chunks[report.i + 1])]]
         ELSE [report EXCEPT !.pc = "done"]
    /\ ReportUnchanged

\* A loop that steps over every other chunk.
DelaySkipping ==
    /\ report.pc = "delay"
    /\ report' = [report EXCEPT !.pc = "parts", !.i = @ + 2]
    /\ ReportUnchanged

\* Lines 627-628: the 500 ms pause, then i++.
Delay ==
    /\ report.pc = "delay"
    /\ report' = [report EXCEPT !.pc = "parts", !.i = @ + 1]
    /\ ReportUnchanged

ReportNext ==
    \/ AnalysisBegin
    \/ SendSettles
    \/ SendPart
    \/ Delay

ReportSpec == ReportInit /\ [][ReportNext]_vars

\* ------------------------------------------------- extractFrames

FRAME_LIMIT == 35
HOOK_SECONDS == 3
HookFps == 2
BodyFps == 1

\* Character codes of the file names ffmpeg writes: `hook_%03d.jpg`,
\* `body_%03d.jpg`.
PassChars(pass) == IF pass = "hook" THEN <<104, 111, 111, 107>> ELSE <<98, 111, 100, 121>>

\* printf's %03d: at least three digits, zero padded.
Pad3(n) ==
    IF n < 1000
    THEN <<48 + (n \div 100), 48 + ((n \div 10) % 10), 48 + (n % 10)>>
    ELSE <<48 + ((n \div 1000) % 10), 48 + ((n \div 100) % 10),
           48 + ((n \div 10) % 10), 48 + (n % 10)>>

FileName(f) == PassChars(f.pass) \o <<95>> \o Pad3(f.n) \o <<46, 106, 112, 103>>

\* Array.prototype.sort() without a comparator: strings by code units.
RECURSIVE LexLess(_, _)
LexLess(a, b) ==
    IF b = <<>> THEN FALSE
    ELSE IF a = <<>> THEN TRUE
    ELSE IF Head(a) # Head(b) THEN Head(a) < Head(b)
    ELSE LexLess(Tail(a), Tail(b))

\* readdirSync(outputDir).filter(...).sort() (lines 420-423).
SortedFrames(files) ==
    LET ranked == {<<Cardinality({g \in files : LexLess(FileName(g), FileName(f))}), f>> :
                      f \in files}
    IN  [k \in 1..Cardinality(files) |-> (CHOOSE p \in ranked : p[1] = k - 1)[2]]

\* The frames ffmpeg writes in one pass, numbered from 1.
PassFrames(pass, count) == {[pass |-> pass, n |-> n] : n \in 1..count}

\* Frames of the hook pass (fps=2, -t hookDuration) and of the body pass
\* (fps=1, -ss hookDuration); ffmpeg's fps filter may round up by one frame.
Min(a, b) == IF a < b THEN a ELSE b
HookCounts(duration) ==
    {HookFps * Min(HOOK_SECONDS, duration), HookFps * Min(HOOK_SECONDS, duration) + 1}
BodyCounts(duration) ==
    {BodyFps * (duration - HOOK_SECONDS), BodyFps * (duration - HOOK_SECONDS) + 1}

\* frames.filter((_, i) => i % step === 0), i counted from 0.
EveryNth(fs, step) ==
    LET kept == (Len(fs) + step - 1) \div step
    IN  [k \in 1..kept |-> fs[(k - 1) * step + 1]]

\* A limit that filters and does not truncate.
LimitFramesNoSlice(fs) ==
    IF Len(fs) > FRAME_LIMIT THEN EveryNth(fs, Len(fs) \div FRAME_LIMIT) ELSE fs

\* A limit that truncates every list to 30 frames.
LimitFramesTo30(fs) == SubSeq(fs, 1, Min(Len(fs), 30))

\* Lines 425-432: the limit to 35 frames.
LimitFrames(fs) ==
    IF Len(fs) > FRAME_LIMIT
    THEN LET step == Len(fs) \div FRAME_LIMIT
             picked == EveryNth(fs, step)
         IN  SubSeq(picked, 1, Min(Len(picked), FRAME_LIMIT))
    ELSE fs

FrameInit ==
    /\ Parked
    /\ report = NoReport
    /\ analysis = NoAnalysis
    /\ gate = NoGate
    /\ frames \in [pc : {"hook"}, duration : 1..MaxDuration, files : {{}}, result : {<<>>}]

FrameUnchanged ==
    UNCHANGED <<jobVars, procVars, scanVars, storeVars, now, record, progressMsg,
                userMsgs, writers, report, delivery, usageLog, moreVars>>

\* Lines 393-403: the hook pass; a non-zero exit code rejects.
ExtractHook ==
    /\ frames.pc = "hook"
    /\ \/ \E c \in HookCounts(frames.duration) :
            frames' = [frames EXCEPT
                         !.files = @ \cup PassFrames("hook", c),
                         !.pc = IF frames.duration > HOOK_SECONDS THEN "body" ELSE "read"]
       \/ frames' = [frames EXCEPT !.pc = "failed"]
    /\ FrameUnchanged

\* Lines 406-418: the body pass, for a video longer than 3 s.
ExtractBody ==
    /\ frames.pc = "body"
    /\ \/ \E c \in BodyCounts(frames.duration) :
            frames' = [frames EXCEPT !.files = @ \cup PassFrames("body", c), !.pc = "read"]
       \/ frames' = [frames EXCEPT !.pc = "failed"]
    /\ FrameUnchanged

\* Lines 420-432: list, sort, limit, return.
ReadFrames ==
    /\ frames.pc = "read"
    /\ frames' = [frames EXCEPT !.result = LimitFrames(SortedFrames(frames.files)),
                                !.pc = "done"]
    /\ FrameUnchanged

FrameNext ==
    \/ ExtractHook
    \/ ExtractBody
    \/ ReadFrames

FrameSpec == FrameInit /\ [][FrameNext]_vars

\* ------------------------------------------------- analyzeVideo

NO_AUDIO == "[No audio detected]"
POLL_MS == 3000

\* What an inference request can come back with: fetch throws, or a status
\* and a body.  The bodies: not JSON; the JSON value null; an object without
\* choices; with an empty choices array; with a first choice without message;
\* with a message without content; with a message with content.
Bodies == {"notjson", "null", "nochoices", "emptychoices", "nomessage", "nocontent",
           "content"}
Responses == {[net |-> "threw", ok |-> FALSE, body |-> "notjson"]}
                \cup [net : {"answered"}, ok : BOOLEAN, body : Bodies]

Threw(e) == [outcome |-> "threw", value |-> e]
Returned(v) == [outcome |-> "returned", value |-> v]

\* analyzeVisuals (lines 541-575) from the fetch on.
analyzeVisuals(resp) ==
    IF resp.net = "threw" THEN Threw("fetch")
    ELSE IF ~resp.ok THEN Threw("Gemini API error")
    ELSE IF resp.body = "notjson" THEN Threw("Failed to parse Gemini response")
    ELSE IF resp.body = "null" THEN Threw("TypeError")
    ELSE IF resp.body \in {"nochoices", "emptychoices", "nomessage"}
         THEN Threw("Unexpected Gemini response structure")
    ELSE IF resp.body = "nocontent" THEN Returned("undefined")
    ELSE Returned("text")

\* synthesizeAnalysis (lines 580-617) from the fetch on.
synthesizeAnalysis(resp) ==
    IF resp.net = "threw" THEN Threw("fetch")
    ELSE IF ~resp.ok THEN Threw("Claude API error")
    ELSE IF resp.body = "notjson" THEN Threw("Failed to parse Claude response")
    ELSE IF resp.body = "null" THEN Threw("TypeError")
    ELSE IF resp.body \in {"nochoices", "emptychoices", "nomessage"}
         THEN Threw("Unexpected Claude response structure")
    ELSE IF resp.body = "nocontent" THEN Returned("undefined")
    ELSE Returned("text")

JobStatuses == {"QUEUED", "IN_PROGRESS", "COMPLETED", "FAILED"}

\* A poll loop that gives up on the first status that is not COMPLETED.
AfterPollGiveUp(status) == IF status = "COMPLETED" THEN "fetch" ELSE "threw"

\* transcribeAudio lines 491-515: what follows the status of one poll.
AfterPoll(status) ==
    IF status = "COMPLETED" THEN "fetch"
    ELSE IF status = "FAILED" THEN "threw"
    ELSE "wait"

\* An audio task that lets the error of transcribeAudio through.
audioTaskCatchRethrow(a, end) ==
    [a EXCEPT !.audio = IF end = "returned" THEN "done" ELSE "failed",
              !.tEnd = end,
              !.transcript = IF end = "returned" THEN "speech" ELSE @,
              !.audioFile = IF end = "returned" THEN "removed" ELSE @]

\* audioTask lines 648-657: transcribeAudio returned or threw; the catch logs,
\* the transcript keeps its initial value, the audio file is removed.
audioTaskCatch(a, end) ==
    [a EXCEPT !.audio = "done",
              !.tEnd = end,
              !.transcript = IF end = "returned" THEN "speech" ELSE @,
              !.audioFile = "removed"]

\* A track issues a request to the transcription service, to storage or to
\* the inference API: `late` records one issued when analyzeVideo is over.
Issues(a) == [a EXCEPT !.late = @ \/ a.pc \in {"returned", "rejected"}]

AnalysisStart ==
    [pc |-> "duration", visual |-> "idle", audio |-> "idle", framesDir |-> "none",
     audioFile |-> "none", hasAudio |-> "unknown", polls |-> 0, slept |-> 0,
     status |-> "", tEnd |-> "none", transcript |-> "", visualResult |-> "",
     requests |-> [visual |-> 0, synth |-> 0], synthCalls |-> 0, synthArg |-> "",
     result |-> "", tempObject |-> "none", late |-> FALSE]

AnalysisInit ==
    /\ Parked
    /\ report = NoReport
    /\ frames = NoFrames
    /\ gate = NoGate
    /\ analysis = AnalysisStart

AnalysisUnchanged ==
    UNCHANGED <<jobVars, procVars, scanVars, storeVars, now, record, progressMsg,
                userMsgs, writers, report, frames, delivery, usageLog, gate, failNotes>>

\* Line 623: getVideoDuration resolves, or rejects on a non-zero ffprobe code.
GetDuration ==
    /\ analysis.pc = "duration"
    /\ \E ok \in BOOLEAN :
         analysis' = [analysis EXCEPT !.pc = IF ok THEN "launch" ELSE "rejected"]
    /\ AnalysisUnchanged

\* A launch that starts the audio task only when the visual task is over.
LaunchVisualFirst ==
    /\ analysis.pc = "launch"
    /\ analysis' = [analysis EXCEPT !.pc = "tracks", !.visual = "frames",
                                    !.framesDir = "exists"]
    /\ AnalysisUnchanged

\* Line 665: Promise.all([visualTask(), audioTask()]).  visualTask() runs to
\* its first await (extractFrames has made the directory and spawned ffmpeg),
\* then audioTask() runs to its first await (extractAudio has spawned ffmpeg),
\* then the promises are awaited.
Launch ==
    /\ analysis.pc = "launch"
    /\ analysis' = [analysis EXCEPT !.pc = "tracks", !.visual = "frames",
                                    !.framesDir = "exists", !.audio = "extract"]
    /\ AnalysisUnchanged

\* Lines 633-637: extractFrames settles; on success the inference request of
\* analyzeVisuals is issued.
FramesSettle ==
    /\ analysis.visual = "frames"
    /\ \E ok \in BOOLEAN :
         analysis' = IF ok
                     THEN Issues([analysis EXCEPT !.visual = "infer",
                                                  !.requests.visual = @ + 1])
                     ELSE [analysis EXCEPT !.visual = "failed"]
    /\ AnalysisUnchanged

\* Lines 637-639: analyzeVisuals settles.
VisualSettle ==
    /\ analysis.visual = "infer"
    /\ \E resp \in Responses :
         LET r == analyzeVisuals(resp)
         IN  analysis' = IF r.outcome = "returned"
                         THEN [analysis EXCEPT !.visual = "done", !.visualResult = r.value]
                         ELSE [analysis EXCEPT !.visual = "failed"]
    /\ AnalysisUnchanged

\* Lines 643-647, 658-660: extractAudio resolves true or false (it never
\* rejects); without audio the task returns its initial transcript.
ExtractAudio ==
    /\ analysis.audio = "extract"
    /\ \E has \in BOOLEAN :
         analysis' = IF has
                     THEN Issues([analysis EXCEPT !.audio = "begin", !.hasAudio = "yes",
                                                  !.transcript = NO_AUDIO,
                                                  !.audioFile = "exists"])
                     ELSE [analysis EXCEPT !.audio = "done", !.hasAudio = "no",
                                           !.transcript = NO_AUDIO]
    /\ AnalysisUnchanged

\* transcribeAudio lines 463-487: the upload of the audio to temp/transcribe/
\* and the start of the job; either request can throw, as can onProgress.
TranscribeBegin ==
    /\ analysis.audio = "begin"
    /\ \E failed \in {"none", "upload", "start"} :
         LET up == Issues([analysis EXCEPT !.tempObject = "exists"])
         IN  analysis' = IF failed = "upload"
                         THEN audioTaskCatch(analysis, "request error")
                         ELSE IF failed = "start" THEN audioTaskCatch(up, "request error")
                         ELSE [up EXCEPT !.audio = "poll"]
    /\ AnalysisUnchanged

\* transcribeAudio lines 490-513: one GetTranscriptionJob request; it throws,
\* or reports a status.
Poll ==
    /\ analysis.audio = "poll"
    /\ analysis.polls < MaxPolls
    /\ \/ analysis' = audioTaskCatch([analysis EXCEPT !.polls = @ + 1], "request error")
       \/ \E status \in JobStatuses :
            LET a == [analysis EXCEPT !.polls = @ + 1, !.status = status]
            IN  analysis' = IF AfterPoll(status) = "threw"
                            THEN audioTaskCatch(a, "Transcription failed")
                            ELSE IF AfterPoll(status) = "fetch"
                            THEN Issues([a EXCEPT !.audio = "fetch"])
                            ELSE [a EXCEPT !.audio = AfterPoll(status)]
    /\ AnalysisUnchanged

\* transcribeAudio line 515: the 3 second pause before the next poll.
PollWait ==
    /\ analysis.audio = "wait"
    /\ analysis' = Issues([analysis EXCEPT !.audio = "poll", !.slept = @ + POLL_MS])
    /\ AnalysisUnchanged

\* transcribeAudio lines 497-500: the transcript is fetched and parsed, which
\* can throw; then the DeleteObject request is issued.
FetchTranscript ==
    /\ analysis.audio = "fetch"
    /\ \E ok \in BOOLEAN :
         analysis' = IF ok THEN Issues([analysis EXCEPT !.audio = "cleanup"])
                     ELSE audioTaskCatch(analysis, "request error")
    /\ AnalysisUnchanged

\* A transcribeAudio that returns the transcript and leaves the object.
returnTranscriptOnly(a, deleted) ==
    audioTaskCatch(a, "returned")

\* transcribeAudio lines 502-508: `await s3.send(new DeleteObjectCommand(...))`
\* and then `return transcript`; a DeleteObject that throws is the error of
\* transcribeAudio.
deleteThenReturn(a, deleted) ==
    IF deleted THEN audioTaskCatch([a EXCEPT !.tempObject = "deleted"], "returned")
    ELSE audioTaskCatch(a, "request error")

\* transcribeAudio lines 502-508.
DeleteTemp ==
    /\ analysis.audio = "cleanup"
    /\ \E deleted \in BOOLEAN : analysis' = deleteThenReturn(analysis, deleted)
    /\ AnalysisUnchanged

\* The join waits for the visual task only.
BothDoneVisualOnly(a) == a.visual = "done"

\* Promise.all resolves when both tasks have returned.
BothDone(a) == a.visual = "done" /\ a.audio = "done"

\* Lines 665-669: Promise.all settles: it rejects as soon as a task has
\* rejected; when both have returned synthesizeAnalysis is called and its
\* request issued.
Join ==
    /\ analysis.pc = "tracks"
    /\ \/ /\ analysis.visual = "failed" \/ analysis.audio = "failed"
          /\ analysis' = [analysis EXCEPT !.pc = "rejected"]
       \/ /\ BothDone(analysis)
          /\ analysis' = [analysis EXCEPT !.pc = "synth",
                                          !.synthCalls = @ + 1,
                                          !.synthArg = analysis.transcript,
                                          !.requests.synth = @ + 1]
    /\ AnalysisUnchanged

\* Lines 669-670: synthesizeAnalysis settles.
SynthSettle ==
    /\ analysis.pc = "synth"
    /\ \E resp \in Responses :
         LET r == synthesizeAnalysis(resp)
         IN  analysis' = IF r.outcome = "returned"
                         THEN [analysis EXCEPT !.pc = "cleanup", !.result = r.value]
                         ELSE [analysis EXCEPT !.pc = "rejected"]
    /\ AnalysisUnchanged

\* Lines 672-677: the frames directory is removed and the report returned.
CleanupFrames ==
    /\ analysis.pc = "cleanup"
    /\ analysis' = [analysis EXCEPT !.pc = "returned",
                                    !.framesDir = IF @ = "exists" THEN "removed" ELSE @]
    /\ AnalysisUnchanged

AnalysisNext ==
    \/ GetDuration
    \/ Launch
    \/ FramesSettle
    \/ VisualSettle
    \/ ExtractAudio
    \/ TranscribeBegin
    \/ Poll
    \/ PollWait
    \/ FetchTranscript
    \/ DeleteTemp
    \/ Join
    \/ SynthSettle
    \/ CleanupFrames

AnalysisSpec == AnalysisInit /\ [][AnalysisNext]_vars

\* ------------------------------------------------- the webhook and its queue

Admin == "admin"
Anonymous == "anonymous"       \* an update whose sender has no username
Users == {Admin, "bob", Anonymous}
StoredKeys == {"downloads/youtube-short/a.mp4"}
\* Processor line 686: the key of a download is made of its source type and
\* of the file name that yt-dlp derives from the URL.
FileKey(url) == "downloads/youtube-short/a.mp4"
NoRequest == [kind |-> "none"]

\* TELEGRAM_WEBHOOK_SECRET (webhook line 14) as the deployment sets it: the
\* Terraform variable is a string without a default and without a validation,
\* so it is a token or the empty string.  A request carries the token in its
\* x-telegram-bot-api-secret-token header, or has no such header.
WebhookToken == "s3cret"
Secrets == {"", WebhookToken}
Headers == {"undefined", WebhookToken}

GateStart ==
    [table |-> [u \in Users |-> NoUser],
     ever |-> [u \in Users |-> FALSE],
     inflight |-> [u \in Users |-> NoRequest],
     queue |-> <<>>, checks |-> <<>>, jobs |-> <<>>, cmds |-> <<>>,
     handled |-> 0, taken |-> 0, runs |-> <<>>,
     secret |-> "", forbidden |-> 0, files |-> {}]

GateInit ==
    /\ Parked
    /\ report = NoReport
    /\ frames = NoFrames
    /\ analysis = NoAnalysis
    /\ \E secret \in Secrets : gate = [GateStart EXCEPT !.secret = secret]

GateUnchanged ==
    UNCHANGED <<jobVars, procVars, scanVars, storeVars, now, record, progressMsg,
                userMsgs, writers, report, frames, delivery, usageLog, analysis,
                failNotes>>

\* A field of a parsed message body; a missing one is undefined.
Field(msg, f) == IF f \in DOMAIN msg THEN msg[f] ELSE "undefined"

\* handleAdminCommands (webhook lines 88-128): /add and /remove of the
\* admin; anybody else's command is not handled.  The UpdateItem creates the
\* item when it is missing; when it fails the table is unchanged.
handleAdminCommands(sender, cmd, target, table, served) ==
    IF sender # Admin \/ ~served THEN table
    ELSE IF cmd = "add"
         THEN [table EXCEPT ![target] = [@ EXCEPT !.exists = TRUE, !.allowed = TRUE]]
         ELSE [table EXCEPT ![target] = [@ EXCEPT !.exists = TRUE, !.allowed = FALSE]]

\* Webhook lines 370-377: the header is compared with the secret only when a
\* secret is configured (the empty string is falsy).
TokenAccepted(secret, header) == secret = "" \/ header = secret

\* The request carries the token that was configured for the webhook.
CarriesToken(secret, header) == secret # "" /\ header = secret

\* Webhook lines 371-376: a request whose header differs from the configured
\* secret is answered 403 before the body is parsed.
Forbidden(header) ==
    /\ gate.handled + Cardinality({v \in Users : gate.inflight[v] # NoRequest}) < MaxRequests
    /\ ~TokenAccepted(gate.secret, header)
    /\ gate' = [gate EXCEPT !.handled = @ + 1, !.forbidden = @ + 1]
    /\ GateUnchanged

\* Webhook lines 386-398 and 428-447: an update arrives and checkAuth is
\* awaited.  A message without a username is refused before checkAuth; a
\* callback without one fails checkAuth.  The GetItem of checkAuth can fail,
\* which denies.
Receive(u, kind, target) ==
    /\ gate.handled + Cardinality({v \in Users : gate.inflight[v] # NoRequest}) < MaxRequests
    /\ gate.inflight[u] = NoRequest
    /\ \E served \in BOOLEAN, header \in Headers :
         LET rec == gate.table[u]
             allowed == /\ u # Anonymous
                        /\ (u = Admin \/ served)
                        /\ checkAuth(u = Admin, rec)
         IN  /\ TokenAccepted(gate.secret, header)
             /\ gate' = [gate EXCEPT
                        !.table[u] = IF u = Admin THEN ensureUserExists(@, served) ELSE @,
                        !.inflight[u] = [kind |-> kind, target |-> target,
                                         allowed |-> allowed,
                                         signed |-> CarriesToken(gate.secret, header),
                                         flagSeen |-> rec.exists /\ rec.allowed]]
    /\ GateUnchanged

\* The message the webhook puts on the queue for a download (lines 537-549)
\* and for an analysis (lines 413-423).
DownloadMessage(u, id) == [username |-> u, url |-> "url", downloadId |-> id]
AnalyzeMessage(u, data) == [action |-> "analyze", username |-> u, downloadId |-> data]

\* The /clear command (webhook lines 310-333): the files table is scanned and
\* the scanned items are deleted one by one; a call that throws ends the loop,
\* so `kept` is what then remains.  No other table is named.
clearEverything(g, kept) ==
    [g EXCEPT !.files = kept, !.table = [u \in Users |-> NoUser]]
clearFiles(g, kept) == [g EXCEPT !.files = kept]

\* Webhook lines 449-550 and 401-426: the rest of the handler.  The admin's
\* command is executed; a sender who is not allowed is told so; a download
\* gets its job record and then its queue message, a button press its queue
\* message.  sqs.send can throw, which the outer catch swallows.  The job id
\* is the handler's randomUUID().  (A PutItem that fails is caught and logged
\* and leaves the request without a record; the record is taken as written.)
Act(u) ==
    /\ gate.inflight[u] # NoRequest
    /\ LET r == gate.inflight[u]
           over == [gate EXCEPT !.inflight[u] = NoRequest, !.handled = @ + 1]
           seen == [user |-> u, kind |-> r.kind, flagSeen |-> r.flagSeen]
       IN  IF r.kind = "clear"
           THEN IF u = Admin
                THEN \E failed \in BOOLEAN, kept \in SUBSET gate.files :
                       /\ ~failed => kept = {}
                       /\ gate' = clearFiles(
                                    [over EXCEPT
                                       !.cmds = Append(@,
                                           [by |-> u, cmd |-> r.kind, ok |-> ~failed,
                                            deletedCount |-> Cardinality(gate.files \ kept)])],
                                    kept)
                ELSE gate' = over
           ELSE IF r.kind \in {"add", "remove"}
           THEN IF u = Admin
                THEN \E served \in BOOLEAN :
                       gate' = [over EXCEPT
                                  !.table = handleAdminCommands(u, r.kind, r.target, @, served),
                                  !.ever[r.target] = @ \/ (served /\ r.kind = "add"),
                                  !.cmds = Append(@, [by |-> u, cmd |-> r.kind])]
                ELSE gate' = over
           ELSE IF ~r.allowed THEN gate' = over
           ELSE IF r.kind = "download"
           THEN \E sent \in BOOLEAN :
                  LET id == over.handled
                      item == [user |-> u, kind |-> r.kind, flagSeen |-> r.flagSeen,
                               id |-> id, status |-> "queued"]
                  IN  gate' = [over EXCEPT
                                 !.jobs = Append(@, item),
                                 !.queue = IF sent THEN Append(@, DownloadMessage(u, id))
                                           ELSE @,
                                 !.checks = IF sent THEN Append(@, seen) ELSE @]
           ELSE \E sent \in BOOLEAN :
                  gate' = [over EXCEPT
                             !.queue = IF sent THEN Append(@, AnalyzeMessage(u, r.target))
                                       ELSE @,
                             !.checks = IF sent THEN Append(@, seen) ELSE @]
    /\ GateUnchanged

\* Processor lines 660-662: `const { chatId, fileKey, username } = messageBody`.
AnalyzeKey(msg) == Field(msg, "fileKey")

\* Processor lines 657-664 and handleAnalysisRequest (lines 581-611): the next
\* queue message is taken.  For an analysis request the file is fetched by its
\* key (the request throws for a missing key, or on a storage error), the
\* analysis runs, and the report or, from the catch block, 'Analysis Failed'
\* is sent; a send can throw.  A download request goes to the download path,
\* which ends with a StoredFile record when trackFile succeeds.
Process ==
    /\ gate.taken < Len(gate.queue)
    /\ LET msg == gate.queue[gate.taken + 1]
           next == [gate EXCEPT !.taken = @ + 1]
       IN  IF Field(msg, "action") # "analyze"
           THEN \E tracked \in BOOLEAN :
                  gate' = [next EXCEPT
                             !.files = IF tracked THEN @ \cup {FileKey(msg.url)} ELSE @]
           ELSE \E fetched, analysed, sent \in BOOLEAN :
                  LET key == AnalyzeKey(msg)
                      got == key \in StoredKeys /\ fetched
                  IN  gate' = [next EXCEPT
                                 !.runs = Append(@,
                                     [pressed |-> msg.downloadId,
                                      key |-> key,
                                      analysed |-> IF got THEN key ELSE "nothing",
                                      reply |-> IF ~sent THEN "none"
                                                ELSE IF got /\ analysed THEN "report"
                                                ELSE "Analysis Failed"])]
    /\ GateUnchanged

GateNext ==
    \/ \E u \in Users, kind \in {"download"} : Receive(u, kind, "url")
    \/ \E u \in Users, key \in StoredKeys : Receive(u, "analyze", key)
    \/ \E u \in Users, kind \in {"add", "remove"}, t \in Users \ {Anonymous} :
         Receive(u, kind, t)
    \/ \E u \in Users : Receive(u, "clear", "files")
    \/ \E header \in Headers : Forbidden(header)
    \/ \E u \in Users : Act(u)
    \/ Process

GateSpec == GateInit /\ [][GateNext]_vars

\* ------------------------------------------------------------------ claims

Finished == pc \in {"returned", "thrown"}

C2_DeleteIssued ==
    /\ Finished => deletes >= 1
    /\ record.exists => record.status \notin {"completed", "failed"}

\* C2 witness: a job that failed because the child exited with an error has
\* been finished with its delete issued.
C2_Witness == pc = "returned" /\ error = "exit" /\ deletes = 1

\* C3: the status attribute follows queued -> starting -> downloading <->
\* converting: it is 'starting' once the processor's first write has been
\* applied, 'converting' once the write of a post-processing line has been
\* applied, and never outside the four values.
C3_StatusStateMachine ==
    record.exists =>
        /\ record.status \in {"queued", "starting", "downloading", "converting"}
        /\ record.percent = "starting" => record.status = "starting"
        /\ record.percent = "converting" => record.status = "converting"

\* C4: a download whose child has not exited 14 minutes after spawn is
\* killed, its directory deleted and downloadMedia rejected with the timeout
\* error; the handler then completes normally for the record (no retry) and
\* the download never yields a file path.
C4_TimeoutFatal ==
    /\ promise.error = "timeout" =>
          /\ promise.state = "rejected"
          /\ now - spawnTime >= TIMEOUT_MS
          /\ proc \in {"killed", "closed"}
          /\ tempDir = "removed"
    /\ error = "timeout" => filePath = NoFile /\ pc # "thrown" /\ pc # "finally_throw"

QualifyingIn(files) == {i \in DOMAIN files : files[i].ext \notin {"part", "ytdl"}}

Ceil(a, b) == (a + b - 1) \div b

C6_ThrottleState ==
    pc = "dl_wait" /\ Fed >= 1 =>
        /\ stats.count >= 1
        /\ now = spawnTime + LineSpacing * (Fed - 1) =>
               now - lastUpdateTime < UPDATE_INTERVAL
        /\ budget = 0 =>
               LET expected == Ceil(LineSpacing * (ThrottleLines - 1), UPDATE_INTERVAL)
               IN  stats.count \in (expected - 1)..(expected + 1)

C6_ThrottleStep ==
    stats'.count > stats.count =>
        /\ lastUpdateTime' = now
        /\ stats.count = 0 \/ now - lastUpdateTime >= UPDATE_INTERVAL

C6_Throttle == [](C6_ThrottleState) /\ [][C6_ThrottleStep]_vars

\* C6 witness: the whole feed has been scanned, at least three lines have
\* notified, and on each stream a line later than its first has notified.
C6_Witness ==
    /\ pc = "dl_wait"
    /\ budget = 0
    /\ stats.count >= 3
    /\ notified["stdout"] > 1
    /\ notified["stderr"] > 1

\* C7: a post-processing line is never passed without its 'converting'
\* notification, whatever the time since the previous notification and on
\* either stream; the notification consists of the job-record write and, for
\* a job with a progress message, the edit.
C7_PhaseBypassesThrottle ==
    /\ stats.passedPhase = 0
    /\ lastNotif.kind = "converting" => lastNotif.db /\ lastNotif.edit = job.hasMsg

\* C7 witness: a 'converting' notification issued on stderr in the same
\* millisecond as the notification before it.
C7_Witness ==
    /\ lastNotif.kind = "converting"
    /\ lastNotif.stream = "stderr"
    /\ stats.count >= 2
    /\ now = StartTime

\* C8: on each stream, notifications are issued in the order the lines were
\* emitted: the emission index of the latest notifying line never decreases.
C8_EmissionOrder == [][\A s \in Streams : notified'[s] >= notified[s]]_vars

\* C9: every progress notification attempts the job-record write and (for a
\* job with a progress message) the edit whatever the outcome of the other,
\* and issuing it leaves the download itself untouched: the child, the timer
\* and the promise of downloadMedia are as before.
C9_BestEffortNotifications ==
    [][stats'.count > stats.count =>
          /\ lastNotif'.db
          /\ lastNotif'.edit = job.hasMsg
          /\ promise' = promise
          /\ proc' = proc
          /\ timerArmed' = timerArmed]_vars

\* C9 witness: the only notification's record write failed (the record still
\* shows 'starting' or 'queued'), its edit went through, and the download
\* resolved afterwards.
C9_Witness ==
    /\ stats.count = 1
    /\ lastNotif.kind = "P_JSON"
    /\ record.percent # "P_JSON"
    /\ progressMsg = "downloading"
    /\ promise.state = "resolved"

\* Run i of uploadToS3 has returned or thrown.
UploadDone(i) == i < Len(uploadLog) \/ pc # "s3_put"
PutsOf(i) == IF uploadLog[i].put = "none" THEN 0 ELSE 1
SameKeyTwice(i) ==
    /\ i + 1 \in DOMAIN uploadLog
    /\ uploadLog[i].key = uploadLog[i + 1].key
    /\ UploadDone(i + 1)

ItemsOf(k) == {it \in filesTable : it.key = k}

C11_TrackState ==
    /\ \A k \in TrackKeys : Cardinality(ItemsOf(k)) <= 1
    /\ \A w \in Writers :
         /\ writers[w].pc # "raised"
         /\ writers[w].result = "created" =>
                [key |-> writers[w].key, writer |-> w] \in filesTable
         /\ writers[w].result = "ConditionalCheckFailedException" =>
                \E v \in Writers \ {w} : [key |-> writers[w].key, writer |-> v] \in filesTable
    /\ \A w, v \in Writers :
         (/\ w # v
          /\ writers[w].pc = "returned" /\ writers[v].pc = "returned"
          /\ writers[w].key = writers[v].key
          /\ writers[w].result # "ServiceError" \/ writers[v].result # "ServiceError")
         => Cardinality(ItemsOf(writers[w].key)) = 1

C11_FirstWriterWins == [](C11_TrackState) /\ [][filesTable \subseteq filesTable']_vars

\* C11 witness: both jobs have returned from trackFile for the same key; j2
\* was served first and its item is the only one, j1 found the key taken.
C11_Witness ==
    /\ writers["j1"].pc = "returned" /\ writers["j2"].pc = "returned"
    /\ writers["j1"].key = writers["j2"].key
    /\ writers["j1"].result = "ConditionalCheckFailedException"
    /\ filesTable = {[key |-> writers["j1"].key, writer |-> "j2"]}

\* C12: every call of updateUsage that the users table serves (the job of an
\* admitted requester has succeeded) adds 1 to the request count and the
\* artifact size to the cumulative size and to the counter of the source
\* category, and no step ever lowers a counter.
C12_AdditiveUsage ==
    [][/\ usage'.conversations >= usage.conversations
       /\ usage'.total >= usage.total
       /\ usage'.platform >= usage.platform
       /\ (Len(usageLog') > Len(usageLog) /\ usageLog'[Len(usageLog')].outcome # "ServiceError")
          => LET size == usageLog'[Len(usageLog')].size
             IN  /\ usage'.conversations = usage.conversations + 1
                 /\ usage'.total = usage.total + size
                 /\ usage'.platform = usage.platform + size]_vars

Handed ==
    IF report.inflight = NoMessage THEN report.sends
    ELSE Append(report.sends, report.inflight)

\* C14: every message sendAnalysisToTelegram hands to the chat (the single
\* message, the split notice, each numbered part with its framing) is at most
\* 4096 characters long, whatever the report text and the title.
C14_MessagesFit == \A k \in 1..Len(Handed) : Handed[k].len <= TELEGRAM_MAX

\* The chunking has been done for a text whose paragraphs are all within the
\* working limit.
Chunked ==
    /\ report.pc \in {"parts", "part_wait", "delay", "done"}
    /\ ~(HeaderLen(report.title) + JoinedLen(report.text) <= 4096)
    /\ \A k \in 1..Len(report.text) : ParaLen(report.text[k]) <= 3900

C15_State ==
    LET fits == HeaderLen(report.title) + JoinedLen(report.text) <= 4096
        n == Len(report.chunks)
    IN  /\ fits => /\ Len(Handed) <= 1
                   /\ \A k \in 1..Len(Handed) : Handed[k].kind = "single"
                   /\ report.pc = "done" => Len(report.sends) = 1
        /\ ~fits => /\ \A k \in 1..Len(Handed) :
                         IF k = 1 THEN Handed[k].kind = "notice"
                         ELSE /\ Handed[k].kind = "part"
                              /\ Handed[k].part = k - 1
                              /\ Handed[k].of = n
                    /\ Len(Handed) <= 1 + n
                    /\ report.pc = "done" => Len(report.sends) = 1 + n

C15_Step ==
    /\ report'.sends # report.sends
         => /\ report.inflight # NoMessage
            /\ report'.sends = Append(report.sends, report.inflight)
    /\ (report'.inflight # NoMessage /\ report'.inflight # report.inflight)
         => report.inflight = NoMessage

\* C15: when header plus report is at most 4096 characters exactly one message
\* is handed to the chat; otherwise the split notice comes first and then the
\* parts in order, numbered 1..n with n the number of chunks, a part being
\* handed over only after the send before it has settled; when
\* sendAnalysisToTelegram returns, all of them have been sent.
C15_OrderedParts == [](C15_State) /\ [][C15_Step]_vars

C15_Witness ==
    /\ report.pc = "done"
    /\ Len(report.sends) >= 3
    /\ report.sends[3].kind = "part"
    /\ report.sends[3].part = 2

RECURSIVE Flatten(_)
Flatten(chunks) == IF chunks = <<>> THEN <<>> ELSE Head(chunks) \o Flatten(Tail(chunks))

\* C16: for a text without a paragraph longer than 3900 characters, every
\* chunk of splitMessage(text, 3900) is at most 3900 characters long, is not
\* empty, and no paragraph is in two chunks.
C16_ChunksWellFormed ==
    Chunked =>
        /\ \A k \in 1..Len(report.chunks) :
             /\ ChunkLen(report.chunks[k]) <= 3900
             /\ report.chunks[k] # <<>>
        /\ LET flat == Flatten(report.chunks)
           IN  \A a, b \in 1..Len(flat) : a < b => flat[a].id < flat[b].id

\* C17 as stated: for a text without a paragraph longer than 3900 characters,
\* the chunks joined in order are the original paragraphs, each exactly once
\* and unchanged.
C17_Reproduces == Chunked => Flatten(report.chunks) = SplitParas(report.text)

Inked(ps) == SelectSeq(ps, LAMBDA p : p.core > 0)
Cores(ps) == [k \in 1..Len(ps) |-> [id |-> ps[k].id, core |-> ps[k].core]]

\* C17: for a text without a paragraph longer than 3900 characters, the
\* paragraphs that hold a non-whitespace character appear in the chunks
\* exactly once and in the original order, each with its core unchanged; a
\* paragraph keeps its surrounding whitespace too, except at the start of the
\* first paragraph and at the end of the last paragraph of a chunk, and the
\* only paragraphs missing are whitespace-only ones.
C17_InkPreserved ==
    Chunked =>
        LET orig == SplitParas(report.text)
        IN  /\ Cores(Inked(Flatten(report.chunks))) = Cores(Inked(orig))
            /\ \A c \in 1..Len(report.chunks) :
                 LET chunk == report.chunks[c]
                 IN  \A k \in 1..Len(chunk) :
                       /\ chunk[k].core = orig[chunk[k].id].core
                       /\ k > 1 => chunk[k].lead = orig[chunk[k].id].lead
                       /\ k < Len(chunk) => chunk[k].trail = orig[chunk[k].id].trail

C17_Witness ==
    /\ Chunked
    /\ Len(report.chunks) >= 2
    /\ Flatten(report.chunks) # SplitParas(report.text)
    /\ \E k \in 1..Len(report.text) : report.text[k].lead > 0

\* Position of a frame in the video: hook frames come from the first 3 s at
\* 2 fps, body frames from 3 s on at 1 fps.
Earlier(f, g) ==
    \/ f.pass = "hook" /\ g.pass = "body"
    \/ f.pass = g.pass /\ f.n < g.n

\* C18: the frames extractFrames returns are in chronological order: every
\* hook frame precedes every body frame, and the frames of one pass are in
\* increasing time order.
C18_Chronological ==
    frames.pc = "done" =>
        \A a, b \in 1..Len(frames.result) :
            a < b => Earlier(frames.result[a], frames.result[b])

Extracted == Cardinality(frames.files)

\* C19: when more than 35 frames were extracted, extractFrames returns exactly
\* 35 of them: the frames at positions 1, 1+N, 1+2N, ... of the sorted
\* listing with N = floor(count/35), cut after the 35th, hence a proper
\* subsequence in the order of the listing.
C19_LimitTo35 ==
    (frames.pc = "done" /\ Extracted > 35) =>
        LET sorted == SortedFrames(frames.files)
            N == Extracted \div 35
        IN  /\ Len(frames.result) = 35
            /\ Len(frames.result) < Len(sorted)
            /\ \A k \in 1..Len(frames.result) : frames.result[k] = sorted[(k - 1) * N + 1]

C19_Witness ==
    /\ frames.pc = "done"
    /\ Extracted >= 70
    /\ Len(frames.result) = 35
    /\ frames.result[2] = SortedFrames(frames.files)[3]

\* C20: when at most 35 frames were extracted, the limit changes nothing:
\* extractFrames returns the sorted listing, the same frames in the same order.
C20_NoOp ==
    (frames.pc = "done" /\ Extracted <= 35) =>
        frames.result = SortedFrames(frames.files)

C20_Witness ==
    /\ frames.pc = "done"
    /\ Extracted = 35
    /\ Len(frames.result) = 35
    /\ \E k \in 1..35 : frames.result[k].pass = "body"

\* C28: a failure of the chat transport is only logged: it never makes the
\* handler take its failure path for a job whose file was downloaded and
\* stored, and the handler never raises.
C28_TransportNeverFails ==
    /\ error \notin {"tgupload", "tgsend"}
    /\ pc \notin {"finally_throw", "thrown"}

AnalysisOver == analysis.pc \in {"returned", "rejected"}

\* C21: whenever analyzeVideo is over, by returning a report or by raising,
\* the frames directory has been cleaned up: it does not remain.
C21_FramesDirCleaned == AnalysisOver => analysis.framesDir # "exists"

TranscribeRaised == analysis.tEnd \in {"request error", "Transcription failed"}

\* C22: the audio task never rejects; when extractAudio reports no audio, or
\* transcribeAudio raises, the task returns '[No audio detected]'; the visual
\* task has been started whatever the audio task does; and synthesis is
\* called with exactly the transcript the audio task returned.
C22_AudioDegrades ==
    /\ analysis.audio # "failed"
    /\ analysis.audio # "idle" => analysis.visual # "idle"
    /\ (analysis.audio = "done" /\ (analysis.hasAudio = "no" \/ TranscribeRaised))
          => analysis.transcript = "[No audio detected]"
    /\ analysis.synthCalls > 0 => analysis.synthArg = analysis.transcript
    /\ (analysis.synthCalls > 0 /\ (analysis.hasAudio = "no" \/ TranscribeRaised))
          => analysis.synthArg = "[No audio detected]"

C22_Witness ==
    /\ analysis.synthCalls = 1
    /\ analysis.tEnd = "Transcription failed"
    /\ analysis.synthArg = "[No audio detected]"
    /\ analysis.visual = "done"

\* C23: both tasks are started in one step, before either is awaited: no
\* state has one task started and the other not, so neither start waits for
\* the other task to end.
C23_BothStarted ==
    /\ (analysis.visual = "idle") <=> (analysis.audio = "idle")
    /\ analysis.pc \in {"duration", "launch"} => analysis.visual = "idle"
    /\ analysis.pc = "tracks" => analysis.visual # "idle" /\ analysis.audio # "idle"

\* Transcription is polling while frame extraction has not finished.
C23_Witness ==
    /\ analysis.pc = "tracks"
    /\ analysis.audio = "wait"
    /\ analysis.polls >= 1
    /\ analysis.visual = "frames"

\* C24: synthesizeAnalysis is called at most once, and only when both tasks
\* have returned; when the visual task has raised it is never called and
\* analyzeVideo does not return.
C24_State ==
    /\ analysis.synthCalls <= 1
    /\ analysis.synthCalls = 1 => analysis.visual = "done" /\ analysis.audio = "done"
    /\ analysis.pc \in {"synth", "cleanup", "returned"} => analysis.synthCalls = 1
    /\ analysis.visual = "failed" =>
          /\ analysis.synthCalls = 0
          /\ analysis.pc \in {"tracks", "rejected"}

C24_SynthesisAfterJoin ==
    [](C24_State) /\ [][analysis.visual = "failed" => analysis'.visual = "failed"]_vars

C24_Witness ==
    /\ analysis.pc = "rejected"
    /\ analysis.visual = "failed"
    /\ analysis.audio = "wait"
    /\ analysis.synthCalls = 0

TranscribeOver == analysis.tEnd # "none"

\* C25 as stated: transcribeAudio ends only by observing a terminal status: it
\* returns the transcript when the job is COMPLETED and raises 'Transcription
\* failed' when it is FAILED.
C25_TerminalOnly ==
    /\ TranscribeOver => analysis.status \in {"COMPLETED", "FAILED"}
    /\ (TranscribeOver /\ analysis.status = "COMPLETED") => analysis.tEnd = "returned"
    /\ (TranscribeOver /\ analysis.status = "FAILED") =>
          analysis.tEnd = "Transcription failed"

C25_State ==
    /\ analysis.tEnd = "returned" => analysis.status = "COMPLETED"
    /\ analysis.tEnd = "Transcription failed" <=>
          (TranscribeOver /\ analysis.status = "FAILED")
    /\ (TranscribeOver /\ analysis.status \notin {"COMPLETED", "FAILED"}) =>
          analysis.tEnd = "request error"
    /\ analysis.audio \in {"poll", "wait", "fetch"} =>
          /\ ~TranscribeOver
          /\ analysis.slept = 3000 * (IF analysis.audio = "poll" /\ analysis.polls > 0
                                      THEN analysis.polls
                                      ELSE IF analysis.polls > 0 THEN analysis.polls - 1
                                      ELSE 0)
    /\ analysis.audio = "wait" => analysis.status \in {"QUEUED", "IN_PROGRESS"}
    /\ analysis.audio = "fetch" => analysis.status = "COMPLETED"

C25_Step ==
    /\ analysis.audio = "wait" =>
          /\ analysis'.audio \in {"wait", "poll"}
          /\ analysis'.polls = analysis.polls
    /\ (analysis.audio = "poll" /\ analysis'.audio # "poll") =>
          analysis'.polls = analysis.polls + 1

\* C25: transcribeAudio polls the job status with 3 seconds between polls and
\* no maximum count.  It returns the transcript only after a poll reported
\* COMPLETED, raises 'Transcription failed' exactly when a poll reported
\* FAILED, and otherwise ends only when one of its requests raises; as long as
\* the polls succeed and report a non-terminal status it does nothing but wait
\* and poll again.
C25_PollUntilTerminal == [](C25_State) /\ [][C25_Step]_vars

C25_Witness ==
    /\ analysis.audio = "wait"
    /\ analysis.polls = MaxPolls
    /\ analysis.slept = 3000 * (MaxPolls - 1)
    /\ ~TranscribeOver

\* C26: an inference stage returns only the text at
\* choices[0].message.content of a 2xx response, raises in every other case,
\* and issues its request at most once per analysis run.
C26_InferenceStage ==
    /\ analysis.requests.visual <= 1
    /\ analysis.requests.synth <= 1
    /\ analysis.visual = "done" => analysis.visualResult = "text"
    /\ analysis.pc \in {"cleanup", "returned"} => analysis.result = "text"

\* C27: the processor runs the analysis on exactly the stored file whose
\* button was pressed: the key it fetches is the key the button carried, and a
\* report is only ever the analysis of that file.
C27_AnalysesPressedFile ==
    \A k \in 1..Len(gate.runs) :
        /\ gate.runs[k].key = gate.runs[k].pressed
        /\ gate.runs[k].reply = "report" => gate.runs[k].analysed = gate.runs[k].pressed

\* C30: every queue message and every job record was caused by the admin or
\* by a user whose allowlist flag was true when checkAuth read it; a user who
\* was never put on the allowlist, and a sender without a username, causes
\* neither; and every admin command that was executed was sent by the admin.
C30_OnlyAuthorized ==
    /\ Len(gate.checks) = Len(gate.queue)
    /\ \A k \in 1..Len(gate.queue) :
         LET c == gate.checks[k]
         IN  /\ gate.queue[k].username = c.user
             /\ c.user # Anonymous
             /\ c.user = Admin \/ (c.flagSeen /\ gate.ever[c.user])
    /\ \A k \in 1..Len(gate.jobs) :
         LET c == gate.jobs[k]
         IN  /\ c.user # Anonymous
             /\ c.user = Admin \/ (c.flagSeen /\ gate.ever[c.user])
    /\ \A k \in 1..Len(gate.cmds) : gate.cmds[k].by = Admin

\* bob was added, queued a download, and was removed.
C30_Witness ==
    /\ Len(gate.queue) = 1
    /\ gate.checks[1].user = "bob"
    /\ gate.table["bob"].exists
    /\ ~gate.table["bob"].allowed
    /\ Len(gate.cmds) = 2

\* C31: every request that gets past the token check of the webhook carried
\* the configured secret token; a request without it is answered 403 and is
\* never handled any further (nothing is sent, read, written or enqueued for
\* it).
C31_ForbiddenWithoutToken ==
    \A u \in Users : gate.inflight[u] # NoRequest => gate.inflight[u].signed

\* The step of an executed /clear command.
ClearStep ==
    /\ Len(gate'.cmds) = Len(gate.cmds) + 1
    /\ gate'.cmds[Len(gate'.cmds)].cmd = "clear"

C35_QueuedOnlyIfEnqueued ==
    \A k \in 1..Len(gate.jobs) :
        gate.jobs[k].status = "queued" =>
            \E m \in 1..Len(gate.queue) :
                /\ Field(gate.queue[m], "action") # "analyze"
                /\ gate.queue[m].downloadId = gate.jobs[k].id
\* What a scanner makes of one line at time t with the throttle at last: its
\* class, the percent it takes, and whether it issues notifications.
ScanResult(s, line, t, last) ==
    [class |-> IF IsPhase(s, line) THEN "phase-change"
               ELSE IF PercentOf(s, line) = "P_JSON" THEN "structured-progress"
               ELSE IF PercentOf(s, line) = "P_BRACKET" THEN "fallback-progress"
               ELSE "unrecognized",
     percent |-> PercentOf(s, line),
     notifies |-> Notifies(s, line, t, last),
     throttled |-> ~ShouldNotify(s, t, last),
     calls |-> NotifyCalls(job.hasMsg, TRUE)]

ScannersAgree ==
    \A line \in LineKinds :
        ScanResult("stdout", line, now, lastUpdateTime)
            = ScanResult("stderr", line, now, lastUpdateTime)

\* C34 as stated: the two scanners make the same of every line in every
\* throttle state, and when the lines fed match both formats no notification
\* uses the percent of the bracketed format.
C34_StructuredAlwaysUsed ==
    /\ ScannersAgree
    /\ lastNotif.kind # "P_BRACKET"

\* C34: the two scanners make the same of every line in every throttle state
\* (class, percent, throttle decision, notifications issued).  A line that
\* matches both formats and whose structured payload carries a percent uses
\* the structured percent; one whose payload is the phase change is notified
\* as a phase change and then taken as fallback progress too, so that of the
\* lines matching both formats only a phase line yields a bracketed percent,
\* after its phase notification.
C34_ScannersEquivalent ==
    /\ ScannersAgree
    /\ \A s \in Streams, line \in LineKinds :
         line.bracket =>
            PercentOf(s, line) = IF line.json = "percent" THEN "P_JSON" ELSE "P_BRACKET"
    /\ lastNotif.kind = "P_BRACKET" => stats.count >= 2

\* Both scanners were fed a line matching both formats; the structured
\* percent of the stderr line was notified last.
C34_Witness ==
    /\ emitted["stdout"] >= 1
    /\ emitted["stderr"] >= 1
    /\ lastNotif = [stream |-> "stderr", kind |-> "P_JSON", db |-> TRUE, edit |-> TRUE]
    /\ stats.count = 2
\* C36: once the handler has issued its delete and the job record is absent,
\* no step re-creates or modifies a record for the job.
C36_DeletedStaysAbsent ==
    [][(deletes >= 1 /\ ~record.exists) => ~record'.exists]_vars
\* The 'Download Failed' text has reached the requester: as the edited
\* progress message or as a message of its own.
FailureNoticed ==
    \/ progressMsg = "failed"
    \/ \E i \in DOMAIN userMsgs : userMsgs[i] = "failed"

\* The job has taken effect as a success: its StoredFile record was written,
\* its size was added to the UsageRecord, or the media was delivered.
TookEffect ==
    \/ filesTable # {}
    \/ \E i \in DOMAIN usageLog : usageLog[i].outcome = "updated"
    \/ \E i \in DOMAIN userMsgs : userMsgs[i] = "media"

\* C37: no job both takes effect as a success and has the 'Download Failed'
\* notice sent to the requester.
C37_SuccessXorFailure == ~(TookEffect /\ FailureNoticed)
\* C33: whenever transcribeAudio has returned the transcript, the job had
\* completed and the temporary audio object had been deleted by transcribeAudio
\* itself, whatever the caller has done or does.
C33_DeletedBeforeReturn ==
    analysis.tEnd = "returned" =>
        /\ analysis.status = "COMPLETED"
        /\ analysis.tempObject = "deleted"
        /\ analysis.transcript = "speech"

\* transcribeAudio returned the transcript after several polls, while
\* analyzeVideo had already raised for the visual track.
C33_Witness ==
    /\ analysis.tEnd = "returned"
    /\ analysis.tempObject = "deleted"
    /\ analysis.polls >= 2
    /\ analysis.pc = "rejected"

\* C38: no track issues a request to the transcription service, to storage or
\* to the inference API once analyzeVideo has returned or raised.
C38_QuietAfterEnd == ~analysis.late

\* C39: whenever transcribeAudio has terminated, by returning or by raising,
\* no temporary audio object of it is left in storage.
C39_TempObjectDeleted ==
    analysis.tEnd # "none" => analysis.tempObject # "exists"
====
